---- MODULE Spec2Model ----
(***************************************************************************)
(* PyChunkedGraph: the root lease protocol and the id counters of          *)
(* pychunkedgraph/graph/client/bigtable/client.py (BigTableClient).        *)
(*                                                                         *)
(* Spec, WriteSpec : lock_root / unlock_root / renew_lock / lock_roots /   *)
(*           _write called by concurrent operations over one table, with   *)
(*           a discrete clock and lease expiry.                            *)
(* IdSpec  : create_node_ids / create_operation_id / get_max_operation_id  *)
(*           over the atomic Bigtable counters.                            *)
(* DisjointSpec : lock_roots called on disjoint root sets.                 *)
(* CutSpec : mincut of pychunkedgraph/graph/cutting.py on small graphs.    *)
(* EdgeSpec : get_cross_chunk_edges_layer and categorize_edges of          *)
(*           graph/edges/utils.py and define_active_edges of               *)
(*           ingest/ran_ingestion.py on small inputs.                      *)
(* IngestSpec : ingest_into_chunkedgraph of ingest/ran_ingestion.py with   *)
(*           the pools of workers of create_atomic_chunks and create_layer.*)
(* FutureSpec : lock_roots on a root that an edit has replaced.            *)
(* AppSpec : handle_supervoxel_id_lookup and remap_public of               *)
(*           app/app_utils.py on small requests.                           *)
(* ParentSpec : categorize_edges_v2 of graph/edges/utils.py.               *)
(* StatusSpec : get_edges_status of graph/edges/utils.py.                  *)
(*                                                                         *)
(* The row filters of client/bigtable/utils.py, get_future_root_ids, the   *)
(* contents of the rows an edit writes and the bit layout of a node id are *)
(* not part of the sources at hand; they are modelled from the             *)
(* specification (node identifier, section 4.5.1) and are marked as such   *)
(* where they are defined.                                                 *)
(***************************************************************************)
EXTENDS Integers, FiniteSets, Sequences, TLC

(* ------------------------------ bounds -------------------------------- *)
MaxTries == 2
MaxRows == 3
\* the largest value a counter is driven to
MaxCounter == 5
\* the largest size of one create_node_ids call
MaxSize == 2
\* the largest number of edges of a local graph
MaxEdges == 3
\* the largest layer count of a graph
MaxLayers == 4

(* ----------------------------- constants ------------------------------ *)
\* graph_config.ROOT_LOCK_EXPIRY, in clock ticks
ROOT_LOCK_EXPIRY == 2
\* block_size of _write, scaled from 2000 rows
BlockSize == 2

Ops == {1, 2}
Roots == {1, 2, 3}
InitialRoots == {1, 2}

VARIABLES
    lock,       \* lock[r]: the lease cell (column Concurrency.Lock) of root row r
    newRoots,   \* newRoots[r]: the NewRoots links of root row r
    pc,         \* pc[op]: where operation op stands
    lr,         \* lr[op]: the locals of op's lock_roots call
    wr,         \* wr[op]: the locals of op's _write call
    ev,         \* the storage call made by the last step
    counter,    \* counter[key]: the cell Concurrency.Counter of row key
    handed,     \* handed[key]: the ids returned so far from counter[key]
    seen,       \* seen[op]: the operation ids returned before op's call began
    ingest      \* the state of the one ingest_into_chunkedgraph run

idVars == <<counter, handed, seen>>

vars == <<lock, newRoots, pc, lr, wr, ev, counter, handed, seen, ingest>>

Min(S) == CHOOSE x \in S : \A y \in S : x <= y

(* ------------------------- the column store --------------------------- *)
\* The lease cell of a root row is the newest version of its lock column:
\* the operation id it carries and its age, now - timestamp in clock ticks,
\* counted up to ROOT_LOCK_EXPIRY (older cells all read as expired).
NoCell == [op |-> 0, age |-> 0]

\* root_row.set_cell(family, key, serialize(operation_id), timestamp=now)
set_cell(op) == [op |-> op, age |-> 0]

\* root_row.delete_cell(family, key)
delete_cell == NoCell

\* The age test of the lease: a cell younger than ROOT_LOCK_EXPIRY.
Unexpired(c) == c # NoCell /\ c.age < ROOT_LOCK_EXPIRY

\* utils.get_root_lock_filter(lock_column, lock_expiry): yields cells iff an
\* unexpired lease cell exists.
get_root_lock_filter(r) == Unexpired(lock[r])

\* utils.get_unlock_root_filter(lock_column, lock_expiry, operation_id):
\* yields cells iff the lease cell is unexpired and carries operation_id.
get_unlock_root_filter(r, op) == Unexpired(lock[r]) /\ lock[r].op = op

\* utils.get_renew_lock_filter(lock_column, operation_id): takes no expiry.
\* renew_lock writes with state=False, when the filter yields nothing, so the
\* filter yields cells iff the lease cell does not carry operation_id.
get_renew_lock_filter(r, op) == ~(lock[r] # NoCell /\ lock[r].op = op)

\* get_future_root_ids: the newest descendants of a root along NewRoots,
\* none when the root has no successor.
RECURSIVE Latest(_)
Latest(r) ==
    IF newRoots[r] = {} THEN {r}
    ELSE UNION {Latest(s) : s \in newRoots[r]}

get_future_root_ids(r) == IF newRoots[r] = {} THEN {} ELSE Latest(r)

\* An operation holds a lease on a root: the unexpired lease cell is its own.
Holds(op, r) == Unexpired(lock[r]) /\ lock[r].op = op

(* --------------------------- the primitives --------------------------- *)
\* Each yields the lease cell after the conditional write and the value the
\* method returns.
lock_root_ignoring_filter(r, op) ==
    [cell |-> set_cell(op), ret |-> TRUE]

lock_root_state_inverted(r, op) ==
    LET matched == get_root_lock_filter(r)
    IN  [cell |-> IF matched THEN set_cell(op) ELSE lock[r],
         ret  |-> matched]

\* the lease of another operation on any root row refuses the write
lock_root_any_row(r, op) ==
    LET matched == \E q \in Roots : Unexpired(lock[q]) /\ lock[q].op # op
    IN  [cell |-> IF ~matched THEN set_cell(op) ELSE lock[r],
         ret  |-> ~matched]

lock_root(r, op) ==
    LET matched == get_root_lock_filter(r)
    IN  [cell |-> IF ~matched THEN set_cell(op) ELSE lock[r],
         ret  |-> ~matched]

unlock_root_unconditional(r, op) ==
    [cell |-> delete_cell, ret |-> TRUE]

unlock_root(r, op) ==
    LET matched == get_unlock_root_filter(r, op)
    IN  [cell |-> IF matched THEN delete_cell ELSE lock[r],
         ret  |-> matched]

renew_lock_unconditional(r, op) ==
    [cell |-> set_cell(op), ret |-> TRUE]

renew_lock(r, op) ==
    LET matched == get_renew_lock_filter(r, op)
    IN  [cell |-> IF ~matched THEN set_cell(op) ELSE lock[r],
         ret  |-> ~matched]

(* ------------------------------ node ids ------------------------------ *)
\* A node id packs, most significant first, the layer, the chunk index and
\* the segment id. The widths are those of a small graph: 1 layer bit,
\* 1 chunk bit and 2 segment id bits.
ChunkBits == 1
SegBits == 2

Pow2(n) == 2 ^ n

\* segment(id), chunk_id(id), chunk_coord(id) and layer(id)
get_segment_id(id) == id % Pow2(SegBits)

get_chunk_id(id) == id - get_segment_id(id)

get_chunk_coordinates(id) == (id \div Pow2(SegBits)) % Pow2(ChunkBits)

get_chunk_layer(id) == id \div Pow2(SegBits + ChunkBits)

\* pack(layer, chunk_coord, 0)
pack_chunk_id(layer, coord) ==
    layer * Pow2(SegBits + ChunkBits) + coord * Pow2(SegBits)

\* The chunks of layer 1.
Chunks == {pack_chunk_id(1, x) : x \in 0..(Pow2(ChunkBits) - 1)}

\* attributes.OperationLogs.key, the row of the operation id counter
OperationLogs_key == 0

Keys == Chunks \cup {OperationLogs_key}

\* a | b on unsigned integers
RECURSIVE BitOr(_, _)
BitOr(a, b) ==
    IF a = 0 THEN b
    ELSE IF b = 0 THEN a
    ELSE (IF a % 2 = 1 \/ b % 2 = 1 THEN 1 ELSE 0)
         + 2 * BitOr(a \div 2, b \div 2)

\* np.arange(low_id, high_id + 1): empty when low_id > high_id
arange(low_id, high_id) == low_id..high_id

(* ------------------------------ events -------------------------------- *)
\* ev describes the step just taken: the storage call (kind, root, ret) and
\* the lease cell it found (prev), the method it belongs to (call) and, when
\* the step ends the method, what the method returns or raises (end) with
\* the values that go with it.
NoEv ==
    [call |-> "none", kind |-> "none", op |-> 0, root |-> 0, ret |-> FALSE,
     prev |-> NoCell, end |-> "none", roots |-> {}, acq |-> {}, rounds |-> 0,
     max_tries |-> 0, written |-> {}, key |-> 0, size |-> 0, id |-> 0,
     ids |-> {}, seen |-> {}, args |-> <<>>, result |-> <<>>,
     looked |-> {}]

(* ------------------------------- Init --------------------------------- *)
\* looked: the get_future_root_ids answers of the round, <<root, answer>>
NoLr == [roots |-> {}, new |-> {}, todo |-> {}, i_try |-> 0, max_tries |-> 0,
         looked |-> {}]
NoWr == [roots |-> {}, todo |-> {}, rows |-> 0, i |-> 0, written |-> {},
         link |-> FALSE]

\* The table as created and the operations before any call.
\* no ingestion under way
NoIngest ==
    [pc |-> "idle", start_layer |-> 0, n_layers |-> 0, n_threads |-> <<0, 0>>,
     chunk_coords |-> {}, layer_id |-> 0, workers |-> 0, blocks |-> <<>>,
     calls |-> {}]

InitTable ==
    /\ lock = [r \in Roots |-> NoCell]
    /\ newRoots = [r \in Roots |-> {}]
    /\ pc = [op \in Ops |-> "idle"]
    /\ lr = [op \in Ops |-> NoLr]
    /\ wr = [op \in Ops |-> NoWr]
    /\ counter = [k \in Keys |-> 0]
    /\ handed = [k \in Keys |-> {}]
    /\ seen = [op \in Ops |-> {}]
    /\ ingest = NoIngest

Init ==
    /\ InitTable
    /\ ev = NoEv

\* The roots that exist: the initial ones and those an edit has created.
Created == InitialRoots \cup UNION {newRoots[r] : r \in Roots}

(* ------------------------------ the clock ----------------------------- *)
\* One clock tick: every lease cell is one tick older.
Older(c) ==
    IF c = NoCell \/ c.age >= ROOT_LOCK_EXPIRY THEN c
    ELSE [c EXCEPT !.age = c.age + 1]

Tick ==
    /\ lock' = [r \in Roots |-> Older(lock[r])]
    /\ ev' = NoEv
    /\ UNCHANGED <<newRoots, pc, lr, wr, idVars, ingest>>

(* ---------------------- direct calls of a primitive ------------------- *)
LockRoot(op, r) ==
    /\ pc[op] = "idle"
    /\ LET res == lock_root(r, op)
       IN  /\ lock' = [lock EXCEPT ![r] = res.cell]
           /\ ev' = [NoEv EXCEPT !.call = "direct", !.kind = "lock_root",
                                 !.op = op, !.root = r, !.ret = res.ret,
                                 !.prev = lock[r]]
    /\ UNCHANGED <<newRoots, pc, lr, wr, idVars, ingest>>

UnlockRoot(op, r) ==
    /\ pc[op] = "idle"
    /\ LET res == unlock_root(r, op)
       IN  /\ lock' = [lock EXCEPT ![r] = res.cell]
           /\ ev' = [NoEv EXCEPT !.call = "direct", !.kind = "unlock_root",
                                 !.op = op, !.root = r, !.ret = res.ret,
                                 !.prev = lock[r]]
    /\ UNCHANGED <<newRoots, pc, lr, wr, idVars, ingest>>

RenewLock(op, r) ==
    /\ pc[op] = "idle"
    /\ LET res == renew_lock(r, op)
       IN  /\ lock' = [lock EXCEPT ![r] = res.cell]
           /\ ev' = [NoEv EXCEPT !.call = "direct", !.kind = "renew_lock",
                                 !.op = op, !.root = r, !.ret = res.ret,
                                 !.prev = lock[r]]
    /\ UNCHANGED <<newRoots, pc, lr, wr, idVars, ingest>>

(* ----------------------------- lock_roots ----------------------------- *)
\* while i_try < max_tries
TriesLeft_off_by_one(i_try, max_tries) == i_try <= max_tries

TriesLeft(i_try, max_tries) == i_try < max_tries

\* lock_roots(root_ids, operation_id, max_tries): the call; i_try = 0 and
\* the first round starts.
LockRootsCall(op, S, mt) ==
    /\ pc[op] = "idle"
    /\ TriesLeft(0, mt)
    /\ pc' = [pc EXCEPT ![op] = "collect"]
    /\ lr' = [lr EXCEPT ![op] = [roots |-> S, new |-> {}, todo |-> S,
                                 i_try |-> 0, max_tries |-> mt,
                                 looked |-> {}]]
    /\ ev' = NoEv
    /\ UNCHANGED <<lock, newRoots, wr, idVars, ingest>>

\* "Collect latest root ids": one get_future_root_ids read per root; after
\* the last one root_ids = np.unique(new_root_ids).
Collect(op) ==
    /\ pc[op] = "collect"
    /\ LET r == Min(lr[op].todo)
           fut == get_future_root_ids(r)
           new == lr[op].new \cup (IF fut = {} THEN {r} ELSE fut)
           rest == lr[op].todo \ {r}
           looked == lr[op].looked \cup {<<r, fut>>}
       IN  IF rest = {}
           THEN /\ lr' = [lr EXCEPT ![op].roots = new, ![op].new = {},
                                    ![op].todo = new, ![op].looked = looked]
                /\ pc' = [pc EXCEPT ![op] = "lock"]
           ELSE /\ lr' = [lr EXCEPT ![op].new = new, ![op].todo = rest,
                                    ![op].looked = looked]
                /\ pc' = pc
    /\ ev' = NoEv
    /\ UNCHANGED <<lock, newRoots, wr, idVars, ingest>>

\* "Attempt to lock all latest root ids": one lock_root per root, in the
\* order of np.unique. A failure starts the roll-back; the last success
\* leaves the loop with lock_acquired and returns (True, root_ids).
LockStep(op) ==
    /\ pc[op] = "lock"
    /\ LET r == Min(lr[op].todo)
           res == lock_root(r, op)
           rest == lr[op].todo \ {r}
           e == [NoEv EXCEPT !.call = "lock_roots", !.kind = "lock_root",
                             !.op = op, !.root = r, !.ret = res.ret,
                             !.prev = lock[r],
                             !.roots = lr[op].roots,
                             !.rounds = lr[op].i_try + 1,
                             !.max_tries = lr[op].max_tries,
                             !.looked = lr[op].looked]
       IN  /\ lock' = [lock EXCEPT ![r] = res.cell]
           /\ IF ~res.ret
              THEN /\ lr' = [lr EXCEPT ![op].todo = lr[op].roots]
                   /\ pc' = [pc EXCEPT ![op] = "rollback"]
                   /\ ev' = [e EXCEPT !.acq = lr[op].roots \ lr[op].todo]
              ELSE IF rest = {}
              THEN /\ lr' = [lr EXCEPT ![op] = NoLr]
                   /\ pc' = [pc EXCEPT ![op] = "idle"]
                   /\ ev' = [e EXCEPT !.acq = lr[op].roots \ rest,
                                      !.end = "success"]
              ELSE /\ lr' = [lr EXCEPT ![op].todo = rest]
                   /\ pc' = pc
                   /\ ev' = [e EXCEPT !.acq = lr[op].roots \ rest]
    /\ UNCHANGED <<newRoots, wr, idVars, ingest>>

\* "Roll back locks if one root cannot be locked": unlock_root on every root
\* of root_ids; then the sleep, i_try += 1 and the loop test, which starts
\* the next round or returns (False, root_ids).
Rollback(op) ==
    /\ pc[op] = "rollback"
    /\ LET r == Min(lr[op].todo)
           res == unlock_root(r, op)
           rest == lr[op].todo \ {r}
           tries == lr[op].i_try + 1
           e == [NoEv EXCEPT !.call = "lock_roots", !.kind = "unlock_root",
                             !.op = op, !.root = r, !.ret = res.ret,
                             !.prev = lock[r],
                             !.roots = lr[op].roots,
                             !.rounds = tries,
                             !.max_tries = lr[op].max_tries,
                             !.looked = lr[op].looked]
       IN  /\ lock' = [lock EXCEPT ![r] = res.cell]
           /\ IF rest # {}
              THEN /\ lr' = [lr EXCEPT ![op].todo = rest]
                   /\ pc' = pc
                   /\ ev' = e
              ELSE IF TriesLeft(tries, lr[op].max_tries)
              THEN /\ lr' = [lr EXCEPT ![op].todo = lr[op].roots,
                                       ![op].i_try = tries,
                                       ![op].looked = {}]
                   /\ pc' = [pc EXCEPT ![op] = "collect"]
                   /\ ev' = [e EXCEPT !.end = "retry"]
              ELSE /\ lr' = [lr EXCEPT ![op] = NoLr]
                   /\ pc' = [pc EXCEPT ![op] = "idle"]
                   /\ ev' = [e EXCEPT !.end = "failure"]
    /\ UNCHANGED <<newRoots, wr, idVars, ingest>>

(* ------------------------------- _write ------------------------------- *)
\* if not self.renew_locks(root_ids, operation_id): raise LockingError
LockingErrorRaised_never(renewed) == FALSE

LockingErrorRaised(renewed) == ~renewed

\* rows[i + 1 : i + block_size]
Block_skipping(i, rows) == {k \in 1..rows : i + 1 < k /\ k <= i + BlockSize}

\* rows[i : i + block_size], rows numbered from 1
Block(i, rows) == {k \in 1..rows : i < k /\ k <= i + BlockSize}

\* The NewRoots links an edit's rows carry: every locked root gets the
\* edit's new root as its successor.
LinkNewRoots(S, fresh) ==
    [r \in Roots |-> IF r \in S THEN newRoots[r] \cup {fresh} ELSE newRoots[r]]

\* _write(rows, root_ids, operation_id): the call. S = {} stands for
\* root_ids=None, where no lease is renewed.
WriteCall(op, S, n, link) ==
    /\ pc[op] = "idle"
    /\ wr' = [wr EXCEPT ![op] = [roots |-> S, todo |-> S, rows |-> n,
                                 i |-> 0, written |-> {}, link |-> link]]
    /\ pc' = [pc EXCEPT ![op] = IF S = {} THEN "mutate" ELSE "renew"]
    /\ ev' = NoEv
    /\ UNCHANGED <<lock, newRoots, lr, idVars, ingest>>

\* renew_locks: one renew_lock per root, False at the first failure and True
\* after the last root; wr.todo keeps the roots not renewed.
RenewStep(op) ==
    /\ pc[op] = "renew"
    /\ LET r == Min(wr[op].todo)
           res == renew_lock(r, op)
           rest == IF res.ret THEN wr[op].todo \ {r} ELSE wr[op].todo
           e == [NoEv EXCEPT !.call = "_write", !.kind = "renew_lock",
                             !.op = op, !.root = r, !.ret = res.ret,
                             !.prev = lock[r],
                             !.roots = wr[op].roots,
                             !.written = wr[op].written]
       IN  /\ lock' = [lock EXCEPT ![r] = res.cell]
           /\ IF res.ret /\ rest # {}
              THEN /\ wr' = [wr EXCEPT ![op].todo = rest]
                   /\ pc' = pc
                   /\ ev' = e
              ELSE IF LockingErrorRaised(res.ret)
              THEN /\ wr' = [wr EXCEPT ![op] = NoWr]
                   /\ pc' = [pc EXCEPT ![op] = "idle"]
                   /\ ev' = [e EXCEPT !.end = "LockingError"]
              ELSE /\ wr' = [wr EXCEPT ![op].todo = rest]
                   /\ pc' = [pc EXCEPT ![op] = "mutate"]
                   /\ ev' = e
    /\ UNCHANGED <<newRoots, lr, idVars, ingest>>

\* One self._table.mutate_rows(rows[i : i + block_size]) of the loop: ok are
\* the rows whose status is a success; not all(status) raises
\* ChunkedGraphError. The last block completes the edit's rows.
MutateStep(op) ==
    /\ pc[op] = "mutate"
    /\ \E ok \in SUBSET Block(wr[op].i, wr[op].rows) :
         LET all == (ok = Block(wr[op].i, wr[op].rows))
             next == wr[op].i + BlockSize
             last == next >= wr[op].rows
             free == Roots \ Created
             e == [NoEv EXCEPT !.call = "_write", !.kind = "mutate_rows",
                               !.op = op, !.ret = all,
                               !.roots = wr[op].roots,
                               !.acq = wr[op].roots \ wr[op].todo,
                               !.written = wr[op].written \cup ok]
         IN  IF ~all
             THEN /\ wr' = [wr EXCEPT ![op] = NoWr]
                  /\ pc' = [pc EXCEPT ![op] = "idle"]
                  /\ ev' = [e EXCEPT !.end = "ChunkedGraphError"]
                  /\ newRoots' = newRoots
             ELSE IF ~last
             THEN /\ wr' = [wr EXCEPT ![op].written = wr[op].written \cup ok,
                                      ![op].i = next]
                  /\ pc' = pc
                  /\ ev' = e
                  /\ newRoots' = newRoots
             ELSE /\ wr' = [wr EXCEPT ![op] = NoWr]
                  /\ pc' = [pc EXCEPT ![op] = "idle"]
                  /\ ev' = [e EXCEPT !.end = "written"]
                  /\ IF wr[op].link /\ free # {} /\ wr[op].roots # {}
                     THEN newRoots' = LinkNewRoots(wr[op].roots, Min(free))
                     ELSE newRoots' = newRoots
    /\ UNCHANGED <<lock, lr, idVars, ingest>>

(* ------------------------------- the ids ------------------------------ *)
\* _get_ids_range(key, size): increment_cell_value adds size to the counter
\* of row key in one atomic step and commit() yields the new value, high.
get_ids_range_stale(key, size) ==
    [counter |-> counter[key] + size,
     low     |-> counter[key] + 1 - size,
     high    |-> counter[key]]

get_ids_range(key, size) ==
    LET high == counter[key] + size
    IN  [counter |-> high, low |-> high + 1 - size, high |-> high]

\* low_id, high_id = chunk_id | low, chunk_id | high
\* return np.arange(low_id, high_id + 1)
node_ids(chunk_id, low, high) ==
    arange(BitOr(chunk_id, low), BitOr(chunk_id, high))

\* create_node_ids(chunk_id, size)
CreateNodeIds(chunk_id, size) ==
    /\ counter[chunk_id] + size <= MaxCounter
    /\ LET rng == get_ids_range(chunk_id, size)
           ids == node_ids(chunk_id, rng.low, rng.high)
       IN  /\ counter' = [counter EXCEPT ![chunk_id] = rng.counter]
           /\ handed' = [handed EXCEPT ![chunk_id] = @ \cup ids]
           /\ ev' = [NoEv EXCEPT !.call = "create_node_ids",
                                 !.kind = "increment_cell_value",
                                 !.key = chunk_id, !.size = size,
                                 !.id = rng.high, !.ids = ids]
    /\ UNCHANGED <<lock, newRoots, pc, lr, wr, seen, ingest>>

\* create_node_id(chunk_id): create_node_ids(chunk_id, 1)[0]
CreateNodeId(chunk_id) ==
    /\ counter[chunk_id] + 1 <= MaxCounter
    /\ LET rng == get_ids_range(chunk_id, 1)
           ids == {Min(node_ids(chunk_id, rng.low, rng.high))}
       IN  /\ counter' = [counter EXCEPT ![chunk_id] = rng.counter]
           /\ handed' = [handed EXCEPT ![chunk_id] = @ \cup ids]
           /\ ev' = [NoEv EXCEPT !.call = "create_node_id",
                                 !.kind = "increment_cell_value",
                                 !.key = chunk_id, !.size = 1,
                                 !.id = rng.high, !.ids = ids]
    /\ UNCHANGED <<lock, newRoots, pc, lr, wr, seen, ingest>>

\* get_max_node_id(chunk_id): chunk_id | (row[0].value if row else 0)
GetMaxNodeId(chunk_id) ==
    /\ ev' = [NoEv EXCEPT !.call = "get_max_node_id", !.kind = "read_row",
                          !.key = chunk_id,
                          !.id = BitOr(chunk_id, counter[chunk_id])]
    /\ UNCHANGED <<lock, newRoots, pc, lr, wr, idVars, ingest>>

\* An operation calls create_operation_id or get_max_operation_id; seen
\* keeps the operation ids that callers had been given by then.
IdCall(op, method) ==
    /\ pc[op] = "idle"
    /\ pc' = [pc EXCEPT ![op] = method]
    /\ seen' = [seen EXCEPT ![op] = handed[OperationLogs_key]]
    /\ ev' = NoEv
    /\ UNCHANGED <<lock, newRoots, lr, wr, counter, handed, ingest>>

\* create_operation_id(): _get_ids_range(OperationLogs.key, 1)[1]
CreateOperationId(op) ==
    /\ pc[op] = "create_operation_id"
    /\ counter[OperationLogs_key] + 1 <= MaxCounter
    /\ LET rng == get_ids_range(OperationLogs_key, 1)
       IN  /\ counter' = [counter EXCEPT ![OperationLogs_key] = rng.counter]
           /\ handed' = [handed EXCEPT ![OperationLogs_key] = @ \cup {rng.high}]
           /\ ev' = [NoEv EXCEPT !.call = "create_operation_id",
                                 !.kind = "increment_cell_value",
                                 !.op = op, !.key = OperationLogs_key,
                                 !.size = 1, !.id = rng.high,
                                 !.seen = seen[op]]
    /\ pc' = [pc EXCEPT ![op] = "idle"]
    /\ seen' = [seen EXCEPT ![op] = {}]
    /\ UNCHANGED <<lock, newRoots, lr, wr, ingest>>

\* get_max_operation_id(): row[0].value if row else 0
GetMaxOperationId(op) ==
    /\ pc[op] = "get_max_operation_id"
    /\ ev' = [NoEv EXCEPT !.call = "get_max_operation_id",
                          !.kind = "read_row", !.op = op,
                          !.key = OperationLogs_key,
                          !.id = counter[OperationLogs_key],
                          !.seen = seen[op]]
    /\ pc' = [pc EXCEPT ![op] = "idle"]
    /\ seen' = [seen EXCEPT ![op] = {}]
    /\ UNCHANGED <<lock, newRoots, lr, wr, counter, handed, ingest>>

(* ------------------------------ the mincut ---------------------------- *)
\* pychunkedgraph/graph/cutting.py. An edge is <<u, v, aff>>, one row of
\* edges with its entry of affs. Affinities are whole numbers; float_max
\* stands for np.finfo(np.float32).max and every value above it for +inf.
float_max == 100

Inf == float_max + 1

\* np.isinf(affs)
isinf(aff) == aff > float_max

\* The nodes reached from S along the rows of E, in either direction.
RECURSIVE Grow(_, _)
Grow(S, E) ==
    LET T == S \cup {e[2] : e \in {f \in E : f[1] \in S}}
               \cup {e[1] : e \in {f \in E : f[2] \in S}}
    IN  IF T = S THEN S ELSE Grow(T, E)

NodesOf(E) == {e[1] : e \in E} \cup {e[2] : e \in E}

\* nx.connected_components / flatgraph.connected_components on nodes V
connected_components(V, E) == {Grow({n}, E) : n \in V}

\* merge_cross_chunk_edges without the contraction: every edge is kept
merge_cross_chunk_edges_none(edges) ==
    [edges     |-> {[s |-> e[1], t |-> e[2], cap |-> e[3], fake |-> "no",
                     orig |-> e] : e \in edges},
     mapping   |-> [n \in {} |-> n],
     remapping |-> [n \in {} |-> {}]]

\* merge_cross_chunk_edges(edges, affs): the nodes joined by infinite
\* affinity edges are represented by the smallest node of their component;
\* the finite edges are remapped, the infinite ones removed.
merge_cross_chunk_edges(edges) ==
    LET cross == {e \in edges : isinf(e[3])}
        ccs == connected_components(NodesOf(cross), cross)
        mapping == [n \in NodesOf(cross) |-> Min(Grow({n}, cross))]
        remapping == [rep \in {Min(cc) : cc \in ccs} |-> Grow({rep}, cross)]
        mapping_vec(a) == IF a \in DOMAIN mapping THEN mapping[a] ELSE a
    IN  [edges     |-> {[s |-> mapping_vec(e[1]), t |-> mapping_vec(e[2]),
                         cap |-> e[3], fake |-> "no", orig |-> e] :
                        e \in edges \ cross},
         mapping   |-> mapping,
         remapping |-> remapping]

\* mapping_vec = np.vectorize(lambda a: mapping[a] if a in mapping else a)
mapping_vec(mapping, ids) ==
    {IF a \in DOMAIN mapping THEN mapping[a] ELSE a : a \in ids}

\* list(itertools.product(sinks, sinks)) and the same for the sources, with
\* capacity float_max; side tells the two lists apart
fake_edges(ids, side) ==
    {[s |-> a, t |-> b, cap |-> float_max, fake |-> side,
      orig |-> <<a, b, float_max>>] : a \in ids, b \in ids}

\* The capacity of the edges of E that leave or enter the node set S.
RECURSIVE CutCapacity(_, _)
CutCapacity(S, E) ==
    IF E = {} THEN 0
    ELSE LET e == CHOOSE x \in E : TRUE
         IN  (IF (e.s \in S) # (e.t \in S) THEN e.cap ELSE 0)
             + CutCapacity(S, E \ {e})

\* The rows of the graph_tool graph as pairs of nodes.
Rows(E) == {<<e.s, e.t>> : e \in E}

Within(V, E) == {e \in E : e.s \in V /\ e.t \in V}

\* "Get rid of connected components that are not involved in the local
\* mincut": the nodes that get removed[node_id] = True.
removed_nodes(unique_ids, comb_edges, sources, sinks) ==
    LET ccs == connected_components(unique_ids, Rows(comb_edges))
    IN  IF Cardinality(ccs) > 1
        THEN UNION {cc \in ccs : ~(cc \cap sources # {} /\ cc \cap sinks # {})}
        ELSE {}

\* a cut between src and tgt of any capacity
min_st_cut_any(V, E, src, tgt) ==
    IF src = tgt THEN {S \in SUBSET V : src \in S}
    ELSE {S \in SUBSET V : src \in S /\ tgt \notin S}

\* push_relabel_max_flow and min_st_cut between src and tgt on the nodes V:
\* the source sides of the cuts of least capacity. The library leaves the
\* outcome open when src and tgt are one vertex: any side that holds src.
min_st_cut(V, E, src, tgt) ==
    IF src = tgt THEN {S \in SUBSET V : src \in S}
    ELSE LET cuts == {S \in SUBSET V : src \in S /\ tgt \notin S}
             cap == [S \in cuts |-> CutCapacity(S, E)]
         IN  {S \in cuts : \A T \in cuts : cap[S] <= cap[T]}

\* cut_edge_set = gt_edges[labeled_edges[:, 0] != labeled_edges[:, 1]]
cut_edges(part, comb_edges) ==
    {e \in comb_edges : (e.s \in part) # (e.t \in part)}

\* The test after the cut: with the fake edges, the cut edges and the edges
\* parallel to them filtered out, a component that holds a source holds all
\* sources and no sink, and one that holds a sink all sinks and no source.
split_is_valid_unchecked(V, comb_edges, cut_edge_set, sources, sinks) == TRUE

split_is_valid(V, comb_edges, cut_edge_set, sources, sinks) ==
    LET left == {e \in Within(V, comb_edges) :
                   /\ e.fake = "no"
                   /\ ~\E c \in cut_edge_set :
                        \/ c.s = e.s /\ c.t = e.t
                        \/ c.s = e.t /\ c.t = e.s}
        ccs_test_post_cut == connected_components(V, Rows(left))
    IN  \A cc \in ccs_test_post_cut :
          /\ cc \cap sources # {}
               => (sources \subseteq cc /\ cc \cap sinks = {})
          /\ cc \cap sinks # {}
               => (sinks \subseteq cc /\ cc \cap sources = {})

\* "Extract original ids" without the mask of the original edges
remapped_cutset_unmasked(cut_edge_set, remapping, original_edges) ==
    LET nodes(n) == IF n \in DOMAIN remapping THEN remapping[n] ELSE {n}
    IN  UNION {(nodes(c.s) \X nodes(c.t)) \cup (nodes(c.t) \X nodes(c.s)) :
               c \in cut_edge_set}

\* "Extract original ids": the products of the nodes the two ends of a cut
\* edge stand for, in both orders, masked by the original edges.
remapped_cutset(cut_edge_set, remapping, original_edges) ==
    LET nodes(n) == IF n \in DOMAIN remapping THEN remapping[n] ELSE {n}
        pairs == UNION {(nodes(c.s) \X nodes(c.t))
                          \cup (nodes(c.t) \X nodes(c.s)) :
                        c \in cut_edge_set}
    IN  {p \in pairs : \E e \in original_edges : e[1] = p[1] /\ e[2] = p[2]}

\* What a call ends with: the edges it returns, or PreconditionError.
Return(cut, exit) == [raised |-> FALSE, cut |-> cut, exit |-> exit]

PreconditionError(exit) == [raised |-> TRUE, cut |-> {}, exit |-> exit]

\* mincut_graph_tool(edges, affs, sources, sinks): the outcomes of the call.
mincut_graph_tool(original_edges, in_sources, in_sinks) ==
    LET m == merge_cross_chunk_edges(original_edges)
        sinks == mapping_vec(m.mapping, in_sinks)
        sources == mapping_vec(m.mapping, in_sources)
        comb_edges == m.edges \cup fake_edges(sinks, "sink")
                        \cup fake_edges(sources, "source")
        unique_ids == {e.s : e \in comb_edges} \cup {e.t : e \in comb_edges}
        removed == removed_nodes(unique_ids, comb_edges, sources, sinks)
        V == unique_ids \ removed
        ccs == connected_components(V, Rows(Within(V, comb_edges)))
        after(part) ==
            LET cut_edge_set == cut_edges(part, comb_edges)
            IN  IF cut_edge_set = {} THEN Return({}, "empty cut")
                ELSE IF ~split_is_valid(V, comb_edges, cut_edge_set,
                                        sources, sinks)
                THEN PreconditionError("no clean cut")
                ELSE Return(remapped_cutset(cut_edge_set, m.remapping,
                                            original_edges), "cut")
    IN  IF m.edges = {} THEN {Return({}, "no edges")}
        ELSE IF Cardinality(ccs) > 1
        THEN {PreconditionError("several components")}
        ELSE IF Cardinality(ccs) = 0
        THEN {PreconditionError("not connected")}
        ELSE {after(part) :
                part \in min_st_cut(V, Within(V, comb_edges),
                                    Min(sources), Min(sinks))}

\* mincut(edges, affs, sources, sinks)
mincut(edges, sources, sinks) == mincut_graph_tool(edges, sources, sinks)

\* The local graphs mincut is called with: up to MaxEdges edges between the
\* supervoxels, one affinity per edge, and one or two sources and sinks; and
\* the graph of the split scenario, its affinities in tenths.
Supervoxels == {1, 2, 3, 4}

Affinities == {1, 2, Inf}

SupervoxelPairs == {p \in Supervoxels \X Supervoxels : p[1] < p[2]}

LocalGraphs ==
    {{<<p[1], p[2], f[p]>> : p \in {q \in SupervoxelPairs : f[q] # 0}} :
       f \in {g \in [SupervoxelPairs -> Affinities \cup {0}] :
                Cardinality({q \in SupervoxelPairs : g[q] # 0})
                  \in 1..MaxEdges}}

Terminals == {T \in SUBSET Supervoxels : Cardinality(T) \in {1, 2}}

ScenarioEdges ==
    {<<100, 101, 10>>, <<101, 102, 5>>, <<200, 201, 9>>, <<102, 103, Inf>>}

MincutInputs ==
    {[edges |-> E, sources |-> S, sinks |-> T] :
       E \in LocalGraphs, S \in Terminals, T \in Terminals}
    \cup {[edges |-> ScenarioEdges, sources |-> {100}, sinks |-> {103}]}

\* A call of mincut with its arguments, and its end.
MincutCalled(a) == [NoEv EXCEPT !.call = "mincut", !.kind = "call", !.args = a]

Mincut ==
    /\ ev.call = "mincut" /\ ev.kind = "call"
    /\ \E r \in mincut(ev.args.edges, ev.args.sources, ev.args.sinks) :
         ev' = [ev EXCEPT !.kind = "return", !.result = r]
    /\ UNCHANGED <<lock, newRoots, pc, lr, wr, idVars, ingest>>

(* ------------------------------ the edges ----------------------------- *)
\* chunks.utils.get_chunk_coordinates_multiple is not part of the sources at
\* hand; after the node identifier of the specification a supervoxel id
\* packs the three chunk coordinates, CoordBits bits each, above the segment
\* id of SegBits bits.
CoordBits == 2

pack_supervoxel(coord, seg) ==
    ((coord[1] * Pow2(CoordBits) + coord[2]) * Pow2(CoordBits) + coord[3])
        * Pow2(SegBits) + seg

get_chunk_coordinates_multiple(meta, ids) ==
    [i \in 1..Len(ids) |->
        LET c == ids[i] \div Pow2(SegBits)
        IN  << c \div Pow2(2 * CoordBits),
               (c \div Pow2(CoordBits)) % Pow2(CoordBits),
               c % Pow2(CoordBits) >>]

Abs(x) == IF x < 0 THEN 0 - x ELSE x

\* np.sum(np.abs(coords0 - coords1), axis=1), one row
edge_diff(c0, c1) ==
    Abs(c0[1] - c1[1]) + Abs(c0[2] - c1[2]) + Abs(c0[3] - c1[3])

\* coords // meta.graph_config.FANOUT, one row
floor_divide(c, F) == <<c[1] \div F, c[2] \div F, c[3] \div F>>

\* the loop with the division ahead of the comparison
RECURSIVE layers_loop_divide_first(_, _, _, _, _)
layers_loop_divide_first(layer, c0, c1, F, n) ==
    IF n = 0 THEN layer
    ELSE LET d0 == floor_divide(c0, F)
             d1 == floor_divide(c1, F)
         IN  layers_loop_divide_first(
                 IF edge_diff(d0, d1) > 0 THEN layer + 1 ELSE layer,
                 d0, d1, F, n - 1)

\* for _ in range(2, meta.layer_count), one row, n iterations to go
RECURSIVE layers_loop(_, _, _, _, _)
layers_loop(layer, c0, c1, F, n) ==
    IF n = 0 THEN layer
    ELSE layers_loop(IF edge_diff(c0, c1) > 0 THEN layer + 1 ELSE layer,
                     floor_divide(c0, F), floor_divide(c1, F), F, n - 1)

get_cross_chunk_edges_layer(meta, cross_edges) ==
    IF Len(cross_edges) = 0 THEN <<>>
    ELSE LET n == Len(cross_edges)
             coords0 == get_chunk_coordinates_multiple(
                            meta, [i \in 1..n |-> cross_edges[i][1]])
             coords1 == get_chunk_coordinates_multiple(
                            meta, [i \in 1..n |-> cross_edges[i][2]])
             iterations == IF meta.layer_count > 2
                           THEN meta.layer_count - 2 ELSE 0
         IN  [i \in 1..n |->
                 layers_loop(1, coords0[i], coords1[i], meta.FANOUT,
                             iterations)]

\* the inputs of a call
Fanouts == {2, 3}
Metas == [layer_count : 2..MaxLayers, FANOUT : Fanouts]
ChunkCoords ==
    {<<x, y, z>> : x \in 0..(Pow2(CoordBits) - 1),
                   y \in 0..(Pow2(CoordBits) - 1),
                   z \in 0..(Pow2(CoordBits) - 1)}
CrossEdgeLists ==
    {<<>>} \cup
    {<< <<pack_supervoxel(c0, 1), pack_supervoxel(c1, 2)>> >> :
        c0 \in ChunkCoords, c1 \in ChunkCoords}

GetCrossChunkEdgesLayerCalled(meta, cross_edges) ==
    [NoEv EXCEPT !.call = "get_cross_chunk_edges_layer", !.kind = "call",
                 !.args = [meta |-> meta, cross_edges |-> cross_edges]]

GetCrossChunkEdgesLayer ==
    /\ ev.call = "get_cross_chunk_edges_layer"
    /\ ev.kind = "call"
    /\ ev' = [ev EXCEPT !.kind = "return",
                        !.result = get_cross_chunk_edges_layer(
                                       ev.args.meta, ev.args.cross_edges)]
    /\ UNCHANGED <<lock, newRoots, pc, lr, wr, idVars, ingest>>

\* Edges of graph/edges/__init__.py is not part of the sources at hand; as
\* in edges/definitions.py it holds parallel arrays, here the rows
\* <<node_ids1[i], node_ids2[i]>>, and edges[mask] keeps the rows at which
\* the mask is true, in their order.
masked(edges, mask) ==
    LET kept[i \in 0..Len(edges)] ==
            IF i = 0 THEN <<>>
            ELSE IF mask[i] THEN Append(kept[i - 1], edges[i])
                 ELSE kept[i - 1]
    IN  kept[Len(edges)]

\* np.isin(ids, supervoxels)
isin(ids, supervoxels) == [i \in 1..Len(ids) |-> ids[i] \in supervoxels]

categorize_edges(meta, supervoxels, edges) ==
    LET n == Len(edges)
        mask1 == isin([i \in 1..n |-> edges[i][1]], supervoxels)
        mask2 == isin([i \in 1..n |-> edges[i][2]], supervoxels)
        in_mask == [i \in 1..n |-> mask1[i] /\ mask2[i]]
        out_mask == [i \in 1..n |-> mask1[i] /\ ~mask2[i]]
        in_edges == masked(edges, in_mask)
        all_out_edges == masked(edges, out_mask)
        edge_layers == get_cross_chunk_edges_layer(meta, all_out_edges)
        cross_edges_mask ==
            [i \in 1..Len(edge_layers) |-> edge_layers[i] > 1]
        out_edges ==
            masked(all_out_edges,
                   [i \in 1..Len(edge_layers) |-> ~cross_edges_mask[i]])
        cross_edges == masked(all_out_edges, cross_edges_mask)
    IN  [in_edges |-> in_edges, out_edges |-> out_edges,
         cross_edges |-> cross_edges]

\* two supervoxels of chunk (0,0,0), one of chunk (1,0,0), one of (2,0,0)
EdgeSupervoxels ==
    {pack_supervoxel(<<0, 0, 0>>, 1), pack_supervoxel(<<0, 0, 0>>, 2),
     pack_supervoxel(<<1, 0, 0>>, 1), pack_supervoxel(<<2, 0, 0>>, 1)}
EdgeRows ==
    {r \in EdgeSupervoxels \X EdgeSupervoxels : r[1] # r[2]}
EdgeLists ==
    {<<>>} \cup {<<r>> : r \in EdgeRows}
           \cup {<<r1, r2>> : r1 \in EdgeRows, r2 \in EdgeRows}

CategorizeEdgesCalled(meta, supervoxels, edges) ==
    [NoEv EXCEPT !.call = "categorize_edges", !.kind = "call",
                 !.args = [meta |-> meta, supervoxels |-> supervoxels,
                           edges |-> edges]]

CategorizeEdges ==
    /\ ev.call = "categorize_edges"
    /\ ev.kind = "call"
    /\ ev' = [ev EXCEPT !.kind = "return",
                        !.result = categorize_edges(
                                       ev.args.meta, ev.args.supervoxels,
                                       ev.args.edges)]
    /\ UNCHANGED <<lock, newRoots, pc, lr, wr, idVars, ingest>>

\* chunks.utils.get_chunk_layers is not part of the sources at hand; after
\* the node identifier of the specification the layer is the field above
\* the chunk coordinates. pack_supervoxel leaves the field out, so that it
\* holds the layer less 1: 0 for a supervoxel, 1 for a layer-2 id.
LayerShift == Pow2(3 * CoordBits + SegBits)

pack_l2id(coord, seg) == LayerShift + pack_supervoxel(coord, seg)

get_chunk_layers(meta, ids) ==
    [i \in 1..Len(ids) |-> 1 + ids[i] \div LayerShift]

\* get_sv_parents as its caller passes it: the layer-2 parent of a
\* supervoxel of the given layer-2 ids, any other id as it is
sv_parents(l2id_children_d) ==
    [sv \in EdgeSupervoxels |->
        IF \E l2id \in DOMAIN l2id_children_d : sv \in l2id_children_d[l2id]
        THEN CHOOSE l2id \in DOMAIN l2id_children_d :
                 sv \in l2id_children_d[l2id]
        ELSE sv]

categorize_edges_v2(meta, supervoxels, edges, l2id_children_d, get_sv_parents) ==
    LET n == Len(edges)
        node_ids1 == [i \in 1..n |-> get_sv_parents[edges[i][1]]]
        node_ids2 == [i \in 1..n |-> get_sv_parents[edges[i][2]]]
        layers1 == get_chunk_layers(meta, node_ids1)
        layer_mask1 == [i \in 1..n |-> layers1[i] > 1]
        in_edges ==
            masked(edges, [i \in 1..n |-> node_ids1[i] = node_ids2[i]])
        all_out_ ==
            masked(edges, [i \in 1..n |->
                              layer_mask1[i] /\ node_ids1[i] # node_ids2[i]])
        cx_layers == get_cross_chunk_edges_layer(meta, all_out_)
        cx_mask == [i \in 1..Len(cx_layers) |-> cx_layers[i] > 1]
        out_edges ==
            masked(all_out_, [i \in 1..Len(cx_layers) |-> ~cx_mask[i]])
        cross_edges == masked(all_out_, cx_mask)
    IN  [in_edges |-> in_edges, out_edges |-> out_edges,
         cross_edges |-> cross_edges]

\* the inputs of a call: two layer-2 ids of chunk (0,0,0) and one of chunk
\* (1,0,0), each with supervoxels of its chunk, no supervoxel under two
L2Ids ==
    {pack_l2id(<<0, 0, 0>>, 1), pack_l2id(<<0, 0, 0>>, 2),
     pack_l2id(<<1, 0, 0>>, 1)}

L2ChildrenDicts ==
    {d \in UNION {[D -> SUBSET EdgeSupervoxels \ {{}}] : D \in SUBSET L2Ids} :
        /\ \A l2id \in DOMAIN d : \A sv \in d[l2id] :
               sv \div Pow2(SegBits) = (l2id - LayerShift) \div Pow2(SegBits)
        /\ \A k1, k2 \in DOMAIN d : k1 # k2 => d[k1] \cap d[k2] = {}}

CategorizeEdgesV2Called(meta, edges, l2id_children_d) ==
    [NoEv EXCEPT !.call = "categorize_edges_v2", !.kind = "call",
                 !.args = [meta |-> meta,
                           supervoxels |->
                               UNION {l2id_children_d[k] :
                                         k \in DOMAIN l2id_children_d},
                           edges |-> edges,
                           l2id_children_d |-> l2id_children_d,
                           get_sv_parents |-> sv_parents(l2id_children_d)]]

CategorizeEdgesV2 ==
    /\ ev.call = "categorize_edges_v2"
    /\ ev.kind = "call"
    /\ ev' = [ev EXCEPT !.kind = "return",
                        !.result = categorize_edges_v2(
                                       ev.args.meta, ev.args.supervoxels,
                                       ev.args.edges,
                                       ev.args.l2id_children_d,
                                       ev.args.get_sv_parents)]
    /\ UNCHANGED <<lock, newRoots, pc, lr, wr, idVars, ingest>>

\* ChunkedGraph is not part of the sources at hand. cg holds the meta, the
\* rows of the edges that exist and the rows of those that are switched on.
\* After the hierarchy of the specification the parent of a supervoxel at
\* stop_layer stands for the supervoxels joined with it by edges that are
\* switched on and relevant below stop_layer; get_roots without stop_layer
\* goes up to the top layer. The parent is named by its least supervoxel.
get_roots(cg, ids, stop_layer) ==
    [i \in 1..Len(ids) |->
        Min(Grow({ids[i]},
                 {e \in cg.active :
                     get_cross_chunk_edges_layer(cg.meta, <<e>>)[1]
                         < stop_layer}))]

\* cg.get_subgraph(root_ids, bbox, edges_only=True): the rows that exist
\* under the roots, with both ends in the chunks lo..hi of the bounding box
get_subgraph(cg, root_ids, lo, hi) ==
    {e \in cg.edges :
        /\ \A j \in 1..2 :
               get_roots(cg, <<e[j]>>, cg.meta.layer_count)[1] \in root_ids
        /\ \A j \in 1..2 : \A d \in 1..3 :
               LET c == get_chunk_coordinates_multiple(cg.meta, <<e[j]>>)[1]
               IN  lo[d] <= c[d] /\ c[d] < hi[d]}

\* utils.general.in2d(edges, sg_edges)
in2d(edges, sg_edges) == [i \in 1..Len(edges) |-> edges[i] \in sg_edges]

\* active_status after the layers up to layer of np.unique(edge_layers):
\* for each layer the masks of its edges, in their order
RECURSIVE status_loop(_, _, _, _)
status_loop(cg, edges, edge_layers, layer) ==
    IF layer = 0 THEN <<>>
    ELSE LET layer_edges ==
                 masked(edges, [i \in 1..Len(edges) |->
                                   edge_layers[i] = layer])
             mask ==
                 [i \in 1..Len(layer_edges) |->
                     get_roots(cg, <<layer_edges[i][1]>>, layer + 1)[1]
                         = get_roots(cg, <<layer_edges[i][2]>>,
                                     layer + 1)[1]]
         IN  status_loop(cg, edges, edge_layers, layer - 1) \o mask

get_edges_status(cg, edges) ==
    LET n == Len(edges)
        coords ==
            get_chunk_coordinates_multiple(
                cg.meta, [i \in 1..n |-> edges[i][1]])
            \o get_chunk_coordinates_multiple(
                   cg.meta, [i \in 1..n |-> edges[i][2]])
        lo == [d \in 1..3 |-> Min({coords[i][d] : i \in 1..(2 * n)})]
        hi == [d \in 1..3 |->
                  1 + (0 - Min({0 - coords[i][d] : i \in 1..(2 * n)}))]
        ravel == [i \in 1..(2 * n) |-> edges[(i + 1) \div 2][2 - (i % 2)]]
        roots == get_roots(cg, ravel, cg.meta.layer_count)
        root_ids == {roots[i] : i \in 1..(2 * n)}
        sg_edges == get_subgraph(cg, root_ids, lo, hi)
        existence_status == in2d(edges, sg_edges)
        edge_layers == get_cross_chunk_edges_layer(cg.meta, edges)
        active_status ==
            status_loop(cg, edges, edge_layers, cg.meta.layer_count)
    IN  [existence_status |-> existence_status,
         active_status |-> active_status]

\* the inputs of a call: a graph of four layers with fan-out 2 over the
\* four supervoxels, whose edges are of the layers 1, 2, 2 and 3
StatusMeta == [layer_count |-> 4, FANOUT |-> 2]

StatusRows ==
    {<<pack_supervoxel(<<0, 0, 0>>, 1), pack_supervoxel(<<0, 0, 0>>, 2)>>,
     <<pack_supervoxel(<<0, 0, 0>>, 1), pack_supervoxel(<<1, 0, 0>>, 1)>>,
     <<pack_supervoxel(<<0, 0, 0>>, 2), pack_supervoxel(<<1, 0, 0>>, 1)>>,
     <<pack_supervoxel(<<1, 0, 0>>, 1), pack_supervoxel(<<2, 0, 0>>, 1)>>}

StatusGraphs ==
    {[meta |-> StatusMeta, edges |-> E, active |-> A] :
        E \in SUBSET StatusRows, A \in SUBSET StatusRows} \
    {cg \in [meta : {StatusMeta}, edges : SUBSET StatusRows,
             active : SUBSET StatusRows] : ~(cg.active \subseteq cg.edges)}

StatusEdgeLists ==
    {<<r>> : r \in StatusRows}
        \cup {l \in {<<r1, r2>> : r1 \in StatusRows, r2 \in StatusRows} :
                 l[1] # l[2]}

GetEdgesStatusCalled(cg, edges) ==
    [NoEv EXCEPT !.call = "get_edges_status", !.kind = "call",
                 !.args = [cg |-> cg, edges |-> edges]]

GetEdgesStatus ==
    /\ ev.call = "get_edges_status"
    /\ ev.kind = "call"
    /\ ev' = [ev EXCEPT !.kind = "return",
                        !.result = get_edges_status(ev.args.cg,
                                                    ev.args.edges)]
    /\ UNCHANGED <<lock, newRoots, pc, lr, wr, idVars, ingest>>

(* ---------------------------- the ingestion -------------------------- *)
\* edges/definitions.py: TYPES
EDGE_TYPES == {"in", "between", "cross"}

\* define_active_edges._mapping_default
mapping_default(mapping, key) ==
    IF key \in DOMAIN mapping THEN mapping[key] ELSE 0 - 1

\* define_active_edges without the line that clears the rows whose first
\* endpoint is not in the mapping
define_active_edges_unmasked(edge_dict, mapping) ==
    LET rows(k) == edge_dict[k]
        agg_id_1(k) ==
            [i \in 1..Len(rows(k)) |-> mapping_default(mapping, rows(k)[i][1])]
        agg_id_2(k) ==
            [i \in 1..Len(rows(k)) |-> mapping_default(mapping, rows(k)[i][2])]
    IN  [active |->
             [k \in DOMAIN edge_dict |->
                 [i \in 1..Len(rows(k)) |-> agg_id_1(k)[i] = agg_id_2(k)[i]]],
         isolated |->
             UNION {{rows(k)[i][1] : i \in {j \in 1..Len(rows(k)) :
                                               agg_id_1(k)[j] = 0 - 1}}
                    : k \in DOMAIN edge_dict}
             \cup
             UNION {{rows(k)[i][2] : i \in {j \in 1..Len(rows(k)) :
                                               agg_id_2(k)[j] = 0 - 1}}
                    : k \in DOMAIN edge_dict \cap {"in"}}]

\* edge_dict[k] holds the parallel arrays sv1, sv2, here the rows
\* <<sv1[i], sv2[i]>>; mapping is a dict from supervoxel to component
define_active_edges(edge_dict, mapping) ==
    LET rows(k) == edge_dict[k]
        agg_id_1(k) ==
            [i \in 1..Len(rows(k)) |-> mapping_default(mapping, rows(k)[i][1])]
        agg_id_2(k) ==
            [i \in 1..Len(rows(k)) |-> mapping_default(mapping, rows(k)[i][2])]
        agg_1_m(k) == [i \in 1..Len(rows(k)) |-> agg_id_1(k)[i] = 0 - 1]
        agg_2_m(k) == [i \in 1..Len(rows(k)) |-> agg_id_2(k)[i] = 0 - 1]
    IN  [active |->
             [k \in DOMAIN edge_dict |->
                 [i \in 1..Len(rows(k)) |->
                     IF agg_1_m(k)[i] THEN FALSE
                     ELSE agg_id_1(k)[i] = agg_id_2(k)[i]]],
         isolated |->
             UNION {{rows(k)[i][1] : i \in {j \in 1..Len(rows(k)) :
                                               agg_1_m(k)[j]}}
                    : k \in DOMAIN edge_dict}
             \cup
             UNION {{rows(k)[i][2] : i \in {j \in 1..Len(rows(k)) :
                                               agg_2_m(k)[j]}}
                    : k \in DOMAIN edge_dict \cap {"in"}}]

\* the inputs of a call; as collect_agglomeration_data builds it, the
\* mapping numbers the components from 0 and a component has two
\* supervoxels at least
ChunkSupervoxels == {1, 2, 3, 4}
Components == {0, 1}
Mappings ==
    {f \in UNION {[D -> Components] : D \in SUBSET ChunkSupervoxels} :
        /\ \A c \in Components :
               Cardinality({x \in DOMAIN f : f[x] = c}) # 1
        /\ (\E x \in DOMAIN f : f[x] = 1) => (\E x \in DOMAIN f : f[x] = 0)}
ChunkRows == {r \in ChunkSupervoxels \X ChunkSupervoxels : r[1] # r[2]}
OrderedRows == {r \in ChunkRows : r[1] < r[2]}
ShortRowLists == {<<>>} \cup {<<r>> : r \in ChunkRows}
RowLists ==
    ShortRowLists
        \cup {l \in {<<r1, r2>> : r1 \in OrderedRows, r2 \in OrderedRows} :
                 l[1] # l[2]}
EdgeDicts ==
    {[k \in EDGE_TYPES |->
         IF k = "in" THEN a ELSE IF k = "between" THEN b ELSE c] :
        a \in RowLists,
        b \in {<<>>} \cup {<<r>> : r \in OrderedRows},
        c \in ShortRowLists}

DefineActiveEdgesCalled(edge_dict, mapping) ==
    [NoEv EXCEPT !.call = "define_active_edges", !.kind = "call",
                 !.args = [edge_dict |-> edge_dict, mapping |-> mapping]]

DefineActiveEdges ==
    /\ ev.call = "define_active_edges"
    /\ ev.kind = "call"
    /\ ev' = [ev EXCEPT !.kind = "return",
                        !.result = define_active_edges(
                                       ev.args.edge_dict, ev.args.mapping)]
    /\ UNCHANGED <<lock, newRoots, pc, lr, wr, idVars, ingest>>

\* ingest_into_chunkedgraph: fan_out, and block_size of create_layer and
\* create_atomic_chunks
fan_out == 2
block_size == 100

\* np.unique of a set of coordinates: in increasing order
sorted(S) ==
    CHOOSE f \in [1..Cardinality(S) -> S] :
        \A i, j \in 1..Cardinality(S) : i < j => f[i] < f[j]

\* np.random.shuffle(order): any order of 1..n
shuffled(n) ==
    {order \in [1..n -> 1..n] :
        \A i, j \in 1..n : order[i] = order[j] => i = j}

\* np.array_split(order, n_blocks)
array_split(order, n_blocks) ==
    LET n == Len(order)
        q == n \div n_blocks
        r == n % n_blocks
        size(i) == IF i <= r THEN q + 1 ELSE q
        start(i) == (i - 1) * q + (IF i - 1 < r THEN i - 1 ELSE r)
    IN  [i \in 1..n_blocks |-> [j \in 1..size(i) |-> order[start(i) + j]]]

\* the blocks of jobs handed to the pool: one job per item
make_blocks(items, n_threads, order) ==
    LET n == Len(items)
        ceil == (n + 3 * n_threads - 1) \div (3 * n_threads)
        size == IF block_size < ceil THEN block_size ELSE ceil
        n_blocks == n \div size
        blocks == array_split(order, n_blocks)
    IN  [i \in 1..n_blocks |->
            [chunks |-> [j \in 1..Len(blocks[i]) |-> items[blocks[i][j]]],
             pos |-> 0, busy |-> FALSE]]

\* create_layer: the child chunks of layer_id - 1 and their parent chunks
child_chunk_coords(chunk_coords, layer_id) ==
    {c \div (fan_out ^ (layer_id - 3)) : c \in chunk_coords}
parent_chunk_coords(chunk_coords, layer_id) ==
    {c \div fan_out : c \in child_chunk_coords(chunk_coords, layer_id)}

\* the pool call returning without waiting for its jobs
pool_joined_at_once(blocks) == TRUE

\* mu.multiprocess_func / mu.multisubprocess_func return when every job of
\* every block has run
pool_joined(blocks) ==
    \A i \in 1..Len(blocks) : blocks[i].pos = Len(blocks[i].chunks)

\* the blocks a worker is working on
open_blocks(blocks) ==
    {i \in 1..Len(blocks) :
        \/ blocks[i].busy
        \/ 0 < blocks[i].pos /\ blocks[i].pos < Len(blocks[i].chunks)}

\* create_layer(im, layer_id, n_threads) up to the pool call
create_layer(ing, layer_id, order) ==
    [ing EXCEPT !.pc = "layer", !.layer_id = layer_id,
                !.workers = ing.n_threads[2],
                !.blocks = make_blocks(
                    sorted(parent_chunk_coords(ing.chunk_coords, layer_id)),
                    ing.n_threads[2], order)]

\* the inputs of a run
StartLayers == 1..5
LayerCounts == {2, 3, 4}
ThreadCounts == {1, 2}
ChunkGrids(n_layers) ==
    SUBSET (0..(fan_out ^ (n_layers - 2) - 1)) \ {{}}

IngestEv(call, kind) == [NoEv EXCEPT !.call = call, !.kind = kind]

\* ingest_into_chunkedgraph up to its first pool call
IngestIntoChunkedgraph ==
    /\ ingest.pc = "idle"
    /\ \E start_layer \in StartLayers, n_layers \in LayerCounts,
          n_threads \in ThreadCounts \X ThreadCounts :
       \E chunk_coords \in ChunkGrids(n_layers) :
          LET ing == [ingest EXCEPT !.start_layer = start_layer,
                                    !.n_layers = n_layers,
                                    !.n_threads = n_threads,
                                    !.chunk_coords = chunk_coords]
          IN  IF start_layer < 3
              THEN \E order \in shuffled(Cardinality(chunk_coords)) :
                       ingest' = [ing EXCEPT
                           !.pc = "atomic", !.layer_id = 1,
                           !.workers = n_threads[1],
                           !.blocks = make_blocks(sorted(chunk_coords),
                                                  n_threads[1], order)]
              ELSE ingest' = [ing EXCEPT !.pc = "abstract"]
    /\ ev' = IngestEv("ingest_into_chunkedgraph", "call")
    /\ UNCHANGED <<lock, newRoots, pc, lr, wr, idVars>>

\* a worker of the pool starts the next job of a block: create_atomic_chunk
\* in _create_atomic_chunk, im.cg.add_layer in _create_layers
StartJob ==
    /\ ingest.pc \in {"atomic", "layer"}
    /\ \E i \in 1..Len(ingest.blocks) :
          LET b == ingest.blocks[i]
          IN  /\ ~b.busy
              /\ b.pos < Len(b.chunks)
              /\ \/ b.pos > 0
                 \/ Cardinality(open_blocks(ingest.blocks)) < ingest.workers
              /\ ingest' = [ingest EXCEPT
                     !.blocks[i].busy = TRUE,
                     !.calls = @ \cup {[layer |-> ingest.layer_id,
                                        chunk |-> b.chunks[b.pos + 1],
                                        state |-> "running"]}]
    /\ ev' = IngestEv(IF ingest.pc = "atomic" THEN "create_atomic_chunk"
                      ELSE "add_layer", "call")
    /\ UNCHANGED <<lock, newRoots, pc, lr, wr, idVars>>

\* the job returns
FinishJob ==
    /\ ingest.pc \in {"atomic", "layer"}
    /\ \E i \in 1..Len(ingest.blocks) :
          LET b == ingest.blocks[i]
              call == [layer |-> ingest.layer_id,
                       chunk |-> b.chunks[b.pos + 1]]
          IN  /\ b.busy
              /\ ingest' = [ingest EXCEPT
                     !.blocks[i].busy = FALSE,
                     !.blocks[i].pos = @ + 1,
                     !.calls = (@ \ {[layer |-> call.layer,
                                      chunk |-> call.chunk,
                                      state |-> "running"]})
                               \cup {[layer |-> call.layer,
                                      chunk |-> call.chunk,
                                      state |-> "finished"]}]
    /\ ev' = IngestEv(IF ingest.pc = "atomic" THEN "create_atomic_chunk"
                      ELSE "add_layer", "return")
    /\ UNCHANGED <<lock, newRoots, pc, lr, wr, idVars>>

\* create_atomic_chunks returns from its pool call
AtomicChunksCreated ==
    /\ ingest.pc = "atomic"
    /\ pool_joined(ingest.blocks)
    /\ ingest' = [ingest EXCEPT !.pc = "abstract"]
    /\ ev' = IngestEv("create_atomic_chunks", "return")
    /\ UNCHANGED <<lock, newRoots, pc, lr, wr, idVars>>

\* create_abstract_layers up to the pool call of its first create_layer
CreateAbstractLayers ==
    /\ ingest.pc = "abstract"
    /\ LET start_layer == IF ingest.start_layer < 3 THEN 3
                          ELSE ingest.start_layer
       IN  IF ~(start_layer < ingest.n_layers + 1)
           THEN ingest' = [ingest EXCEPT !.pc = "failed"]
           ELSE \E order \in shuffled(Cardinality(
                        parent_chunk_coords(ingest.chunk_coords,
                                            start_layer))) :
                    ingest' = create_layer(ingest, start_layer, order)
    /\ ev' = IngestEv("create_abstract_layers", "call")
    /\ UNCHANGED <<lock, newRoots, pc, lr, wr, idVars>>

\* create_layer returns from its pool call; the loop of
\* create_abstract_layers goes on to the next layer or ends
LayerCreated ==
    /\ ingest.pc = "layer"
    /\ pool_joined(ingest.blocks)
    /\ IF ingest.layer_id + 1 < ingest.n_layers + 1
       THEN \E order \in shuffled(Cardinality(
                    parent_chunk_coords(ingest.chunk_coords,
                                        ingest.layer_id + 1))) :
                ingest' = create_layer(ingest, ingest.layer_id + 1, order)
       ELSE ingest' = [ingest EXCEPT !.pc = "done"]
    /\ ev' = IngestEv("create_layer", "return")
    /\ UNCHANGED <<lock, newRoots, pc, lr, wr, idVars>>

(* ------------------------------- the app ------------------------------ *)
\* cg.meta.resolution, nm per voxel; ChunkedGraph is not part of the sources
\* at hand
resolution == <<4, 4, 40>>

\* the supervoxel under a point
supervoxel_at(point) == point[1] + point[2] + point[3] + 1

\* cg.get_atomic_ids_from_coords(coords, parent_id, max_dist_nm): the
\* supervoxels under the points when each point has one within
\* max_dist_nm (cg.need[point] is the distance it takes), None otherwise
get_atomic_ids_from_coords(cg, coords, parent_id, max_dist_nm) ==
    IF \A i \in 1..Len(coords) : cg.need[coords[i]] <= max_dist_nm
    THEN [found |-> TRUE,
          ids |-> [i \in 1..Len(coords) |-> supervoxel_at(coords[i])]]
    ELSE [found |-> FALSE, ids |-> <<>>]

\* the thresholds in the opposite order
max_dists_descending == <<500, 250, 150, 75>>

\* for max_dist_nm in [75, 150, 250, 500]
max_dists == <<75, 150, 250, 500>>

\* spatial.distance.cdist(...) < 1000, on squares
near(c1, c2) ==
    (c1[1] - c2[1]) * (c1[1] - c2[1]) + (c1[2] - c2[2]) * (c1[2] - c2[2])
        + (c1[3] - c2[3]) * (c1[3] - c2[3]) < 1000 * 1000

\* ccs(coordinates_nm[node_id_m]) mapped through np.where(node_id_m)[0]:
\* the groups of indices of one node id
lookup_ccs(coordinates_nm, parent_ids, node_id) ==
    LET M == {i \in 1..Len(parent_ids) : parent_ids[i] = node_id}
        E == {e \in M \X M : near(coordinates_nm[e[1]], coordinates_nm[e[2]])}
    IN  connected_components(M, E)

\* the groups in the order of the two loops: np.unique(node_ids), then the
\* components of the node id
RECURSIVE in_order(_)
in_order(groups) ==
    IF groups = {} THEN <<>>
    ELSE LET first == CHOOSE g \in groups :
                          \A h \in groups :
                              \/ g.node_id < h.node_id
                              \/ /\ g.node_id = h.node_id
                                 /\ Min(g.m_ids) <= Min(h.m_ids)
         IN  <<first>> \o in_order(groups \ {first})

lookup_groups(coordinates_nm, parent_ids) ==
    in_order(UNION {{[node_id |-> parent_ids[j], m_ids |-> cc] :
                        cc \in lookup_ccs(coordinates_nm, parent_ids,
                                          parent_ids[j])} :
                       j \in 1..Len(parent_ids)})

\* the loop over the thresholds for one group, from threshold k on: the
\* queries made and the last answer
RECURSIVE query_loop(_, _, _, _)
query_loop(cg, coords, node_id, k) ==
    LET sub == get_atomic_ids_from_coords(cg, coords, node_id, max_dists[k])
        query == [coords |-> coords, node_id |-> node_id,
                  max_dist_nm |-> max_dists[k], found |-> sub.found]
    IN  IF sub.found \/ k = Len(max_dists)
        THEN [sub |-> sub, queries |-> <<query>>]
        ELSE LET rest == query_loop(cg, coords, node_id, k + 1)
             IN  [sub |-> rest.sub, queries |-> <<query>> \o rest.queries]

\* the loops over the groups, from group g on
RECURSIVE group_loop(_, _, _, _, _, _)
group_loop(cg, coordinates, groups, g, atomic_ids, queries) ==
    IF g > Len(groups)
    THEN [raised |-> "none", atomic_ids |-> atomic_ids, queries |-> queries]
    ELSE LET m_ids == groups[g].m_ids
             idx == sorted(m_ids)
             coords == [i \in 1..Len(idx) |-> coordinates[idx[i]]]
             r == query_loop(cg, coords, groups[g].node_id, 1)
         IN  IF ~r.sub.found
             THEN [raised |-> "BadRequest", atomic_ids |-> <<>>,
                   queries |-> queries \o r.queries]
             ELSE group_loop(
                      cg, coordinates, groups, g + 1,
                      [i \in 1..Len(atomic_ids) |->
                          IF i \in m_ids
                          THEN r.sub.ids[CHOOSE j \in 1..Len(idx) : idx[j] = i]
                          ELSE atomic_ids[i]],
                      queries \o r.queries)

\* coordinates is a list of points, parent_ids the argument node_ids, a list
\* of the same length
handle_supervoxel_id_lookup(cg, coordinates, parent_ids) ==
    LET coordinates_nm ==
            [i \in 1..Len(coordinates) |->
                <<coordinates[i][1] * resolution[1],
                  coordinates[i][2] * resolution[2],
                  coordinates[i][3] * resolution[3]>>]
    IN  IF Len(coordinates) = 0
        THEN [raised |-> "BadRequest", atomic_ids |-> <<>>, queries |-> <<>>]
        ELSE group_loop(cg, coordinates,
                        lookup_groups(coordinates_nm, parent_ids), 1,
                        [i \in 1..Len(coordinates) |-> 0], <<>>)

\* the inputs of a call: points 600 nm apart in a row
LookupPoints == {<<0, 0, 0>>, <<150, 0, 0>>, <<300, 0, 0>>}
LookupNodeIds == {1, 2}
Never == 1000
Graphs == [need : [LookupPoints -> {75, 150, 250, 500, Never}]]
Lookups ==
    UNION {[coordinates : [1..n -> LookupPoints],
            node_ids : [1..n -> LookupNodeIds]] : n \in 0..3}

LookupCalled(cg, a) ==
    [NoEv EXCEPT !.call = "handle_supervoxel_id_lookup", !.kind = "call",
                 !.args = [cg |-> cg, coordinates |-> a.coordinates,
                           node_ids |-> a.node_ids]]

HandleSupervoxelIdLookup ==
    /\ ev.call = "handle_supervoxel_id_lookup"
    /\ ev.kind = "call"
    /\ ev' = [ev EXCEPT !.kind = "return",
                        !.result = handle_supervoxel_id_lookup(
                                       ev.args.cg, ev.args.coordinates,
                                       ev.args.node_ids)]
    /\ UNCHANGED <<lock, newRoots, pc, lr, wr, idVars, ingest>>

\* a float: a number of seconds, or not a number
Float(v) == [nan |-> FALSE, v |-> v]
NaN == [nan |-> TRUE, v |-> 0]

\* Python's > on floats: false as soon as one side is not a number
float_gt(a, b) == ~a.nan /\ ~b.nan /\ a.v > b.v

\* float(text): the texts of a query string that matter here
ParsedTexts == {"1", "2", "3", "nan"}
float(text) ==
    CASE text = "1" -> Float(1)
      [] text = "2" -> Float(2)
      [] text = "3" -> Float(3)
      [] text = "nan" -> NaN

\* a datetime is counted in half seconds; mktime(v_timestamp.timetuple())
\* is the float of its whole seconds (timetuple has no microseconds; the
\* server clock is UTC)
mktime(v_timestamp) == Float(v_timestamp \div 2)

\* the values of request.args: the text of the query string, or a float put
\* there by ceiling_timestamp
Text(text) == [tag |-> "str", str |-> text, num |-> NaN]
Number(f) == [tag |-> "float", str |-> "", num |-> f]

\* remap_public.ceiling_timestamp(argname): the new http_args, or ValueError
\* from float()
ceiling_timestamp(http_args, argname, v_timetamp_float) ==
    IF argname \in DOMAIN http_args
    THEN LET old_arg == http_args[argname]
         IN  IF old_arg.str \notin ParsedTexts
             THEN [raised |-> "ValueError", http_args |-> http_args]
             ELSE IF float_gt(float(old_arg.str), v_timetamp_float)
                  THEN [raised |-> "none",
                        http_args |-> [http_args EXCEPT
                            ![argname] = Number(v_timetamp_float)]]
                  ELSE [raised |-> "none", http_args |-> http_args]
    ELSE [raised |-> "none",
          http_args |-> [a \in DOMAIN http_args \cup {argname} |->
                            IF a = argname THEN Number(v_timetamp_float)
                            ELSE http_args[a]]]

\* cg.get_node_timestamps: the creation time of a node, in half seconds;
\* node 1 is older than every cap, node 2 younger
get_node_timestamps(node_id) == IF node_id = 1 THEN 1 ELSE 7

\* remap_public.assert_node_prop(prop): Unauthorized or nothing
assert_node_prop(kwargs, prop, v_timestamp) ==
    IF prop \in DOMAIN kwargs
    THEN IF ~(get_node_timestamps(kwargs[prop]) < v_timestamp)
         THEN "Unauthorized" ELSE "none"
    ELSE "none"

\* the outcome of a wrapped call: the exception raised, or the arguments
\* the handler f is invoked with
Invoked(kwargs, http_args) ==
    [raised |-> "none", invoked |-> TRUE, kwargs |-> kwargs,
     http_args |-> http_args]
Raised(exception) ==
    [raised |-> exception, invoked |-> FALSE, kwargs |-> <<>>,
     http_args |-> <<>>]

\* decorated_function of remap_public(edit, check_node_ids) on a request
\* with the keyword arguments kwargs, the query string http_args and the
\* posted node_ids
remap_public(virtual_tables, edit, check_node_ids, kwargs, http_args, posted) ==
    IF virtual_tables.none THEN Invoked(kwargs, http_args)
    ELSE IF "table_id" \notin DOMAIN kwargs THEN Invoked(kwargs, http_args)
    ELSE IF kwargs["table_id"] \notin DOMAIN virtual_tables.tables
         THEN Invoked(kwargs, http_args)
    ELSE IF edit THEN Raised("Unauthorized")
    ELSE LET table == virtual_tables.tables[kwargs["table_id"]]
             new_kwargs == [kwargs EXCEPT !["table_id"] = table.table_id]
             v_timestamp == table.timestamp
             v_timetamp_float == mktime(v_timestamp)
             c1 == ceiling_timestamp(http_args, "timestamp",
                                     v_timetamp_float)
             c2 == ceiling_timestamp(c1.http_args, "timestamp_future",
                                     v_timetamp_float)
         IN  IF c1.raised # "none" THEN Raised(c1.raised)
             ELSE IF c2.raised # "none" THEN Raised(c2.raised)
             ELSE IF assert_node_prop(new_kwargs, "root_id", v_timestamp)
                         # "none"
                  THEN Raised("Unauthorized")
             ELSE IF assert_node_prop(new_kwargs, "node_id", v_timestamp)
                         # "none"
                  THEN Raised("Unauthorized")
             ELSE IF check_node_ids
                     /\ ~(\A n \in posted :
                              get_node_timestamps(n) < v_timestamp)
                  THEN Raised("Unauthorized")
             ELSE Invoked(new_kwargs, c2.http_args)

\* the inputs of a request: table 10 is real, table 11 a virtual table on
\* table 10 with a cap of 4 or 5 half seconds
VirtualTables ==
    {[t \in {11} |-> [table_id |-> 10, timestamp |-> cap]] : cap \in {4, 5}}
\* current_app.config.get("VIRTUAL_TABLES", None)
Configs ==
    {[none |-> TRUE, tables |-> [t \in {} |-> t]]}
        \cup {[none |-> FALSE, tables |-> v] : v \in VirtualTables}
Kwargs ==
    {k \in UNION {[D -> {1, 2, 10, 11}] :
                     D \in SUBSET {"table_id", "root_id"}} :
        /\ "table_id" \in DOMAIN k => k["table_id"] \in {10, 11}
        /\ "root_id" \in DOMAIN k => k["root_id"] \in {1, 2}}
QueryTexts == {"1", "2", "3", "nan", "abc"}
HttpArgs ==
    UNION {[D -> {Text(t) : t \in QueryTexts}] :
              D \in SUBSET {"timestamp", "timestamp_future"}}
Requests ==
    [virtual_tables : Configs, edit : BOOLEAN, check_node_ids : BOOLEAN,
     kwargs : Kwargs, http_args : HttpArgs, posted : {{1}, {1, 2}}]

RemapPublicCalled(a) ==
    [NoEv EXCEPT !.call = "remap_public", !.kind = "call", !.args = a]

RemapPublic ==
    /\ ev.call = "remap_public"
    /\ ev.kind = "call"
    /\ ev' = [ev EXCEPT !.kind = "return",
                        !.result = remap_public(
                            ev.args.virtual_tables, ev.args.edit,
                            ev.args.check_node_ids, ev.args.kwargs,
                            ev.args.http_args, ev.args.posted)]
    /\ UNCHANGED <<lock, newRoots, pc, lr, wr, idVars, ingest>>

(* ------------------------------- Next --------------------------------- *)
\* Spec: operation 1 takes its leases with lock_roots, on roots it looked up
\* before any edit, and gives them back with unlock_root; operation 2
\* competes with the three primitives and commits an edit of root 1 (one
\* row, with its NewRoots link).
Lockers == {1}
Editors == {2}

Next ==
    \/ Tick
    \/ \E op \in Editors, r \in Created : LockRoot(op, r)
    \/ \E op \in Ops, r \in Created : UnlockRoot(op, r)
    \/ \E op \in Editors, r \in Created : RenewLock(op, r)
    \/ \E op \in Lockers, S \in SUBSET InitialRoots, mt \in 1..MaxTries :
         S # {} /\ LockRootsCall(op, S, mt)
    \/ \E op \in Lockers : Collect(op)
    \/ \E op \in Lockers : LockStep(op)
    \/ \E op \in Lockers : Rollback(op)
    \/ \E op \in Editors : WriteCall(op, {Min(InitialRoots)}, 1, TRUE)
    \/ \E op \in Editors : RenewStep(op)
    \/ \E op \in Editors : MutateStep(op)

Spec == Init /\ [][Next]_vars

\* WriteSpec: operation 1 calls _write with any rows and roots, and both
\* operations call the three primitives at will.
Writers == {1}

WriteNext ==
    \/ Tick
    \/ \E op \in Ops, r \in Created : LockRoot(op, r)
    \/ \E op \in Ops, r \in Created : UnlockRoot(op, r)
    \/ \E op \in Ops, r \in Created : RenewLock(op, r)
    \/ \E op \in Writers, S \in SUBSET Created, n \in 1..MaxRows :
         WriteCall(op, S, n, FALSE)
    \/ \E op \in Writers : RenewStep(op)
    \/ \E op \in Writers : MutateStep(op)

WriteSpec == Init /\ [][WriteNext]_vars

\* DisjointSpec: the operations call lock_roots, each on current roots that
\* carry no lease and that no call under way has in its list, and give
\* leases back with unlock_root. A lock_root that failed would leave its
\* call at the roll-back.
Unclaimed(op, S) ==
    \A r \in S :
      /\ lock[r] = NoCell
      /\ newRoots[r] = {}
      /\ \A o \in Ops \ {op} : r \notin lr[o].roots

DisjointNext ==
    \/ Tick
    \/ \E op \in Ops, r \in Roots : UnlockRoot(op, r)
    \/ \E op \in Ops, S \in SUBSET Roots, mt \in 1..MaxTries :
         S # {} /\ Unclaimed(op, S) /\ LockRootsCall(op, S, mt)
    \/ \E op \in Ops : Collect(op)
    \/ \E op \in Ops : LockStep(op)

DisjointSpec == Init /\ [][DisjointNext]_vars

\* FutureSpec: the table after an edit has replaced root 1 by root 2.
\* Operation 1 calls lock_roots on roots 1 and 2, operation 2 locks root 2,
\* commits an edit of it and gives the lease back.
FutureInit ==
    /\ lock = [r \in Roots |-> NoCell]
    /\ newRoots = [r \in Roots |-> IF r = 1 THEN {2} ELSE {}]
    /\ pc = [op \in Ops |-> "idle"]
    /\ lr = [op \in Ops |-> NoLr]
    /\ wr = [op \in Ops |-> NoWr]
    /\ counter = [k \in Keys |-> 0]
    /\ handed = [k \in Keys |-> {}]
    /\ seen = [op \in Ops |-> {}]
    /\ ingest = NoIngest
    /\ ev = NoEv

FutureNext ==
    \/ Tick
    \/ \E op \in Editors : LockRoot(op, 2)
    \/ \E op \in Editors : UnlockRoot(op, 2)
    \/ \E op \in Lockers, S \in SUBSET InitialRoots, mt \in 1..MaxTries :
         S # {} /\ LockRootsCall(op, S, mt)
    \/ \E op \in Lockers : Collect(op)
    \/ \E op \in Lockers : LockStep(op)
    \/ \E op \in Lockers : Rollback(op)
    \/ \E op \in Editors : WriteCall(op, {2}, 1, TRUE)
    \/ \E op \in Editors : RenewStep(op)
    \/ \E op \in Editors : MutateStep(op)

FutureSpec == FutureInit /\ [][FutureNext]_vars

\* CutSpec: mincut is called once, with any of the local graphs.
CutInit ==
    /\ InitTable
    /\ ev \in {MincutCalled(a) : a \in MincutInputs}

CutNext == Mincut

CutSpec == CutInit /\ [][CutNext]_vars

\* IdSpec: the chunks' node ids and the operation ids are allocated and read
\* by concurrent callers.
\* edge utilities called on drawn arguments
EdgeInit ==
    /\ InitTable
    /\ \/ \E meta \in Metas, cross_edges \in CrossEdgeLists :
           ev = GetCrossChunkEdgesLayerCalled(meta, cross_edges)
       \/ \E meta \in Metas, supervoxels \in SUBSET EdgeSupervoxels,
              edges \in EdgeLists :
           ev = CategorizeEdgesCalled(meta, supervoxels, edges)
       \/ \E edge_dict \in EdgeDicts, mapping \in Mappings :
           ev = DefineActiveEdgesCalled(edge_dict, mapping)

EdgeNext ==
    \/ GetCrossChunkEdgesLayer
    \/ CategorizeEdges
    \/ DefineActiveEdges

EdgeSpec == EdgeInit /\ [][EdgeNext]_vars

\* StatusSpec: get_edges_status called on drawn arguments
StatusInit ==
    /\ InitTable
    /\ \E cg \in StatusGraphs, edges \in StatusEdgeLists :
           ev = GetEdgesStatusCalled(cg, edges)

StatusNext == GetEdgesStatus

StatusSpec == StatusInit /\ [][StatusNext]_vars

\* ParentSpec: categorize_edges_v2 called on drawn arguments
ParentInit ==
    /\ InitTable
    /\ \E meta \in Metas, edges \in EdgeLists,
          l2id_children_d \in L2ChildrenDicts :
           ev = CategorizeEdgesV2Called(meta, edges, l2id_children_d)

ParentNext == CategorizeEdgesV2

ParentSpec == ParentInit /\ [][ParentNext]_vars

\* one run of ingest_into_chunkedgraph with its pools of workers
IngestNext ==
    \/ IngestIntoChunkedgraph
    \/ StartJob
    \/ FinishJob
    \/ AtomicChunksCreated
    \/ CreateAbstractLayers
    \/ LayerCreated

IngestSpec == Init /\ [][IngestNext]_vars

\* the helpers of the app called on drawn arguments
AppInit ==
    /\ InitTable
    /\ \/ \E cg \in Graphs, a \in Lookups : ev = LookupCalled(cg, a)
       \/ \E a \in Requests : ev = RemapPublicCalled(a)

AppNext ==
    \/ HandleSupervoxelIdLookup
    \/ RemapPublic

AppSpec == AppInit /\ [][AppNext]_vars

IdNext ==
    \/ \E c \in Chunks, size \in 1..MaxSize : CreateNodeIds(c, size)
    \/ \E c \in Chunks : CreateNodeId(c)
    \/ \E c \in Chunks : GetMaxNodeId(c)
    \/ \E op \in Ops : IdCall(op, "create_operation_id")
    \/ \E op \in Ops : IdCall(op, "get_max_operation_id")
    \/ \E op \in Ops : CreateOperationId(op)
    \/ \E op \in Ops : GetMaxOperationId(op)

IdSpec == Init /\ [][IdNext]_vars

(* ============================== the claims ============================ *)

C2_AllOrNothing ==
    /\ (ev.call = "lock_roots" /\ ev.end = "success")
         => \A r \in ev.roots : lock[r] # NoCell /\ lock[r].op = ev.op
    /\ (ev.call = "lock_roots" /\ ev.end \in {"retry", "failure"})
         => \A r \in ev.roots : ~Holds(ev.op, r)

\* C3 as claimed: whenever _write mutates a block of rows, the operation
\* holds an unexpired lease on every root of root_ids.
C3_WriteUnderLease ==
    (ev.call = "_write" /\ ev.kind = "mutate_rows")
        => \A r \in ev.roots : Holds(ev.op, r)

\* C4: a renewal failure aborts _write. When renew_lock fails for a root of
\* root_ids, _write raises LockingError with no row mutated; and no block is
\* mutated before every root of root_ids has been renewed.
C4_RenewalFailureAborts ==
    /\ (ev.call = "_write" /\ ev.kind = "renew_lock" /\ ~ev.ret)
         => (ev.end = "LockingError" /\ ev.written = {} /\ pc[ev.op] = "idle")
    /\ ev.end = "LockingError" => (ev.kind = "renew_lock" /\ ~ev.ret)
    /\ \A op \in Ops : pc[op] = "mutate" => wr[op].todo = {}
    /\ (ev.call = "_write" /\ ev.kind = "mutate_rows") => ev.acq = ev.roots

\* C4 witness: _write raised LockingError after the lease of its second root
\* could not be renewed.
C4_Witness ==
    /\ ev.end = "LockingError"
    /\ ev.root # Min(ev.roots)
    /\ lock[ev.root].op # ev.op

\* C5: unlock_root deletes the lease cell only when the cell is an unexpired
\* lease of the calling operation. A lease cell disappears only in an
\* unlock_root of its own holder, an unlock_root that finds another
\* operation's cell leaves it as it is, in the roll-back of lock_roots too.
C5_UnlockOnlyOwnLease ==
    [][\A r \in Roots :
         /\ (lock[r] # NoCell /\ lock'[r] = NoCell)
              => (ev'.kind = "unlock_root" /\ ev'.root = r /\ ev'.ret
                  /\ ev'.op = lock[r].op /\ Unexpired(lock[r]))
         /\ (ev'.kind = "unlock_root" /\ ev'.root = r /\ lock[r].op # ev'.op)
              => (lock'[r] = lock[r] /\ ~ev'.ret)]_vars

\* C5 witness: the roll-back of lock_roots called unlock_root on a root that
\* the other operation holds, and the lease is still there.
C5_Witness ==
    /\ ev.call = "lock_roots" /\ ev.kind = "unlock_root" /\ ~ev.ret
    /\ Holds(CHOOSE o \in Ops : o # ev.op, ev.root)

\* C6: an expired lease does not block. In every state, lock_root on a root
\* whose lease cell is ROOT_LOCK_EXPIRY old or older succeeds for every
\* operation; a lock_root that fails has found a lease younger than that.
C6_ExpiredLeaseDoesNotBlock ==
    /\ \A op \in Ops, r \in Roots :
         ~Unexpired(lock[r])
           => (lock_root(r, op).ret /\ lock_root(r, op).cell = set_cell(op))
    /\ (ev.kind = "lock_root" /\ ~ev.ret) => Unexpired(ev.prev)

\* C6 witness: an operation took the lease of a root from the expired,
\* never released lease of the other operation.
C6_Witness ==
    /\ ev.kind = "lock_root" /\ ev.ret
    /\ ev.prev # NoCell /\ ev.prev.op # ev.op /\ ev.prev.age >= ROOT_LOCK_EXPIRY
    /\ lock[ev.root] = set_cell(ev.op)

\* C7 as claimed: node ids are never reused. Every create_node_ids or
\* create_node_id call on a chunk returns ids that no earlier call on the
\* chunk returned, a call with size n returns exactly the n consecutive ids
\* that end at the chunk id or-ed with the new counter value, and no counter
\* ever decreases.
C7_NodeIdsNeverReused ==
    [][/\ ev'.call \in {"create_node_ids", "create_node_id"}
            => LET last == BitOr(ev'.key, counter'[ev'.key])
               IN  /\ ev'.ids \cap handed[ev'.key] = {}
                   /\ Cardinality(ev'.ids) = ev'.size
                   /\ ev'.ids = (last - ev'.size + 1)..last
       /\ \A k \in Keys : counter'[k] >= counter[k]]_vars

\* C8: operation ids are contiguous and monotone. Every create_operation_id
\* returns the counter value it found plus one, which becomes the counter
\* value, so N calls starting from c return c+1 .. c+N, each once; the id is
\* larger than every id returned before the call began; and
\* get_max_operation_id returns no less than any id returned by then.
C8_OperationIdsContiguous ==
    [][/\ ev'.call = "create_operation_id"
            => /\ ev'.id = counter[OperationLogs_key] + 1
               /\ counter'[OperationLogs_key] = ev'.id
               /\ ev'.id \notin handed[OperationLogs_key]
               /\ handed'[OperationLogs_key]
                    = handed[OperationLogs_key] \cup {ev'.id}
               /\ \A i \in seen[ev'.op] : ev'.id > i
       /\ ev'.call = "get_max_operation_id"
            => \A i \in handed[OperationLogs_key] \cup seen[ev'.op] :
                 ev'.id >= i
       /\ handed'[OperationLogs_key] = 1..counter'[OperationLogs_key]]_vars

\* C8 witness: two create_operation_id calls were under way together; the
\* one that began second was served first, and the other now returns the
\* third id handed out, one more than an id returned after it began.
C8_Witness ==
    /\ ev.call = "create_operation_id"
    /\ ev.id = 3
    /\ ev.seen = {1}
    /\ handed[OperationLogs_key] = {1, 2, 3}

\* C9 as claimed: every id returned by create_node_ids or create_node_id has
\* the layer and the chunk coordinate of chunk_id, at every counter value.
C9_IdsCarryChunkBits ==
    ev.call \in {"create_node_ids", "create_node_id"}
        => \A id \in ev.ids :
             /\ get_chunk_layer(id) = get_chunk_layer(ev.key)
             /\ get_chunk_coordinates(id) = get_chunk_coordinates(ev.key)

\* C10: lock_roots makes at most max_tries rounds. A call never has more
\* than max_tries rounds under way, reports failure after exactly max_tries
\* rounds, and the round that acquires every root ends the call with
\* success.
C10_AtMostMaxTriesRounds ==
    /\ \A op \in Ops :
         pc[op] \in {"collect", "lock", "rollback"}
           => lr[op].i_try < lr[op].max_tries
    /\ ev.call = "lock_roots" => ev.rounds <= ev.max_tries
    /\ ev.end = "failure" => ev.rounds = ev.max_tries
    /\ ev.end = "retry" => ev.rounds < ev.max_tries
    /\ (ev.call = "lock_roots" /\ ev.kind = "lock_root" /\ ev.ret
        /\ ev.acq = ev.roots)
         => (ev.end = "success" /\ pc[ev.op] = "idle")

\* C10 witness: lock_roots gave up after a second round.
C10_Witness ==
    /\ ev.end = "failure" /\ ev.rounds >= 2 /\ ev.rounds = ev.max_tries

\* C11: concurrent edits on disjoint roots do not interfere. When the
\* operations call lock_roots on pairwise disjoint sets of current roots
\* that carry no lease, every lock_root of every call succeeds, no call
\* rolls back or retries, and every call returns success in its first round.
C11_DisjointRootsDoNotInterfere ==
    /\ \A op \in Ops : pc[op] # "rollback" /\ lr[op].i_try = 0
    /\ ev.call = "lock_roots"
         => /\ ev.kind = "lock_root" /\ ev.ret
            /\ ev.rounds = 1
            /\ ev.end \in {"none", "success"}
            /\ ev.acq = ev.roots => ev.end = "success"

\* C11 witness: a lock_roots call returned success while the call of the
\* other operation, on two roots, was under way and had taken its first
\* lease.
C11_Witness ==
    /\ ev.call = "lock_roots" /\ ev.end = "success"
    /\ \E o \in Ops \ {ev.op} :
         /\ pc[o] = "lock"
         /\ \E r \in lr[o].roots \ lr[o].todo : Holds(o, r)

\* The input graph of the call just ended, as node pairs: every edge, the
\* infinite ones too, and the same without the edges the call returned.
InputRows == {<<e[1], e[2]>> : e \in ev.args.edges}

InputNodes == NodesOf(ev.args.edges) \cup ev.args.sources \cup ev.args.sinks

MincutReturned == ev.call = "mincut" /\ ev.kind = "return" /\ ~ev.result.raised

\* C12: a returned cut separates. Whenever mincut returns a non-empty edge
\* set, then in the input graph without the returned edges (infinite edges
\* kept) every component with a source holds all sources and no sink, and
\* every component with a sink holds all sinks and no source; a call that
\* found no such cut raised PreconditionError and returned no edge.
C12_CutSeparates ==
    /\ (MincutReturned /\ ev.result.cut # {})
         => \A cc \in connected_components(InputNodes,
                                           InputRows \ ev.result.cut) :
              /\ cc \cap ev.args.sources # {}
                   => /\ ev.args.sources \subseteq cc
                      /\ cc \cap ev.args.sinks = {}
              /\ cc \cap ev.args.sinks # {}
                   => /\ ev.args.sinks \subseteq cc
                      /\ cc \cap ev.args.sources = {}
    /\ (ev.call = "mincut" /\ ev.kind = "return" /\ ev.result.raised)
         => ev.result.cut = {}

\* C12 witness: a cut was returned for two sources and two sinks that lie
\* on a path through an infinite edge.
C12_Witness ==
    /\ MincutReturned /\ ev.result.cut # {}
    /\ Cardinality(ev.args.sources) = 2 /\ Cardinality(ev.args.sinks) = 2
    /\ \E e \in ev.args.edges : isinf(e[3])

\* C13: an infinite-affinity edge is never cut. Every edge mincut returns
\* is an edge of the input whose affinity is finite.
C13_InfiniteEdgeNeverCut ==
    MincutReturned
        => \A p \in ev.result.cut :
             /\ \E e \in ev.args.edges : e[1] = p[1] /\ e[2] = p[2]
             /\ \A e \in ev.args.edges :
                  (e[1] = p[1] /\ e[2] = p[2]) => ~isinf(e[3])

\* C13 witness: the cut between two contracted components was expanded to
\* two input edges.
C13_Witness ==
    /\ MincutReturned /\ Cardinality(ev.result.cut) = 2
    /\ \E e \in ev.args.edges :
         /\ isinf(e[3])
         /\ \E p \in ev.result.cut, q \in ev.result.cut :
              p # q /\ p[1] = e[1] /\ q[1] = e[2] /\ p[2] = q[2]

\* C14 as claimed: whenever no component of the local graph holds a source
\* and a sink, mincut raises PreconditionError and returns no cut.
C14_UnconnectedRaises ==
    (/\ ev.call = "mincut" /\ ev.kind = "return"
     /\ \A cc \in connected_components(InputNodes, InputRows) :
          ~(cc \cap ev.args.sources # {} /\ cc \cap ev.args.sinks # {}))
        => ev.result.raised

\* C15 as claimed: on the graph of the split scenario, with the infinite
\* edge (102, 103), source 100 and sink 103, mincut raises PreconditionError.
C15_ScenarioRaises ==
    (ev.call = "mincut" /\ ev.kind = "return"
     /\ ev.args.edges = ScenarioEdges)
        => ev.result.raised

\* C15, amended: on that graph mincut raises nothing and returns the one
\* edge (101, 102), which separates 100 from 102 and 103.
C15_ScenarioCutsFiniteEdge ==
    (ev.call = "mincut" /\ ev.kind = "return"
     /\ ev.args.edges = ScenarioEdges)
        => ev.result = Return({<<101, 102>>}, "cut")

\* C15 witness: the call on the scenario graph has ended.
C15_Witness ==
    /\ ev.call = "mincut" /\ ev.kind = "return"
    /\ ev.args = [edges |-> ScenarioEdges, sources |-> {100}, sinks |-> {103}]

\* C16 as claimed: whenever mincut returns an empty edge set, no source is
\* connected to a sink in the input graph, infinite edges included.
C16_EmptyCutMeansSeparated ==
    (MincutReturned /\ ev.result.cut = {})
        => \A cc \in connected_components(InputNodes, InputRows) :
             ~(cc \cap ev.args.sources # {} /\ cc \cap ev.args.sinks # {})

\* the chunk coordinates of a supervoxel
CoordsOf(meta, id) == get_chunk_coordinates_multiple(meta, <<id>>)[1]

\* a chunk coordinate after k integer divisions by F
RECURSIVE Divided(_, _, _)
Divided(c, F, k) == IF k = 0 THEN c ELSE Divided(floor_divide(c, F), F, k - 1)

\* the grid has one chunk at the top layer
InGrid(meta, c) ==
    \A d \in 1..3 : c[d] < meta.FANOUT ^ (meta.layer_count - 2)

AgreeAfter(meta, c0, c1, k) ==
    Divided(c0, meta.FANOUT, k) = Divided(c1, meta.FANOUT, k)

CrossLayerReturned ==
    ev.call = "get_cross_chunk_edges_layer" /\ ev.kind = "return"

\* C17: for chunk coordinates inside the grid get_cross_chunk_edges_layer
\* returns 1 exactly when both endpoints lie in the same chunk, and for
\* endpoints in different chunks the smallest L >= 2 such that the
\* coordinates agree after L - 1 integer divisions by the fanout; the result
\* never exceeds layer_count - 1.
C17_CrossChunkLayer ==
    CrossLayerReturned =>
        /\ Len(ev.result) = Len(ev.args.cross_edges)
        /\ \A i \in 1..Len(ev.args.cross_edges) :
               LET meta == ev.args.meta
                   c0 == CoordsOf(meta, ev.args.cross_edges[i][1])
                   c1 == CoordsOf(meta, ev.args.cross_edges[i][2])
                   L == ev.result[i]
               IN  /\ L <= meta.layer_count - 1
                   /\ (InGrid(meta, c0) /\ InGrid(meta, c1)) =>
                          /\ (L = 1) <=> (c0 = c1)
                          /\ (c0 # c1) =>
                                 /\ L >= 2
                                 /\ AgreeAfter(meta, c0, c1, L - 1)
                                 /\ \A M \in 2..(L - 1) :
                                        ~AgreeAfter(meta, c0, c1, M - 1)

\* an edge inside the grid whose endpoints agree after two divisions only
C17_Witness ==
    /\ CrossLayerReturned
    /\ Len(ev.args.cross_edges) = 1
    /\ LET meta == ev.args.meta
           c0 == CoordsOf(meta, ev.args.cross_edges[1][1])
           c1 == CoordsOf(meta, ev.args.cross_edges[1][2])
       IN  /\ InGrid(meta, c0) /\ InGrid(meta, c1)
           /\ ~AgreeAfter(meta, c0, c1, 1)
           /\ ev.result[1] = 3

CategorizeReturned == ev.call = "categorize_edges" /\ ev.kind = "return"

\* the row is one of the rows of the class
Lands(row, class) == \E j \in 1..Len(class) : class[j] = row

\* the cross-chunk layer of one row
RowLayer(meta, row) == get_cross_chunk_edges_layer(meta, <<row>>)[1]

\* C18: categorize_edges puts every candidate edge with at least one endpoint
\* in the supervoxel set into exactly one of three pairwise disjoint classes,
\* whichever endpoint is the one in the set: in when both endpoints are in
\* it, out when one is and the edge has cross-chunk layer 1, cross when one
\* is and the layer is above 1; an edge with no endpoint in the set is in
\* none.
C18_ThreeClasses ==
    CategorizeReturned =>
        \A i \in 1..Len(ev.args.edges) :
            LET row == ev.args.edges[i]
                S == ev.args.supervoxels
                in1 == row[1] \in S
                in2 == row[2] \in S
                one == (in1 /\ ~in2) \/ (in2 /\ ~in1)
                layer == RowLayer(ev.args.meta, row)
            IN  /\ Lands(row, ev.result.in_edges) <=> (in1 /\ in2)
                /\ Lands(row, ev.result.out_edges) <=> (one /\ layer = 1)
                /\ Lands(row, ev.result.cross_edges) <=> (one /\ layer > 1)

ActiveReturned == ev.call = "define_active_edges" /\ ev.kind = "return"

\* both endpoints are in the mapping, in the same component
SameComponent(mapping, row) ==
    /\ row[1] \in DOMAIN mapping
    /\ row[2] \in DOMAIN mapping
    /\ mapping[row[1]] = mapping[row[2]]

\* C19: define_active_edges marks an edge active if and only if both
\* endpoints map to the same component of the mapping; an edge with
\* endpoints in different components, or with one or both endpoints absent
\* from the mapping, is inactive, for every edge type.
C19_ActiveIffSameComponent ==
    ActiveReturned =>
        /\ DOMAIN ev.result.active = EDGE_TYPES
        /\ \A k \in EDGE_TYPES :
               /\ Len(ev.result.active[k]) = Len(ev.args.edge_dict[k])
               /\ \A i \in 1..Len(ev.args.edge_dict[k]) :
                      ev.result.active[k][i] <=>
                          SameComponent(ev.args.mapping,
                                        ev.args.edge_dict[k][i])

\* a call with an active edge, and with a cross edge and an in edge whose
\* endpoints are both absent from the mapping
C19_Witness ==
    /\ ActiveReturned
    /\ \E k \in EDGE_TYPES : \E i \in 1..Len(ev.args.edge_dict[k]) :
           ev.result.active[k][i]
    /\ \A k \in {"in", "cross"} :
           /\ Len(ev.args.edge_dict[k]) > 0
           /\ LET row == ev.args.edge_dict[k][Len(ev.args.edge_dict[k])]
              IN  /\ row[1] \notin DOMAIN ev.args.mapping
                  /\ row[2] \notin DOMAIN ev.args.mapping
                  /\ ~ev.result.active[k][Len(ev.args.edge_dict[k])]

\* the first abstract layer of the run
FirstLayer == IF ingest.start_layer < 3 THEN 3 ELSE ingest.start_layer

\* every add_layer call of the layer has returned
LayerFinished(layer_id) ==
    \A chunk \in parent_chunk_coords(ingest.chunk_coords, layer_id) :
        [layer |-> layer_id, chunk |-> chunk, state |-> "finished"]
            \in ingest.calls

\* every atomic chunk is created
AtomicFinished ==
    \A chunk \in ingest.chunk_coords :
        [layer |-> 1, chunk |-> chunk, state |-> "finished"] \in ingest.calls

\* C20: abstract layers are built strictly in sequence: an add_layer call of
\* a layer has started only if every add_layer call of every earlier layer,
\* from max(start_layer, 3) on, has finished, and, when start_layer < 3, if
\* every atomic chunk is created; the layers run from max(start_layer, 3) up
\* to the top layer, with one worker or several.
C20_LayersInSequence ==
    /\ \A c \in ingest.calls :
           IF c.layer = 1 THEN ingest.start_layer < 3
           ELSE /\ c.layer \in FirstLayer..ingest.n_layers
                /\ \A L \in FirstLayer..(c.layer - 1) : LayerFinished(L)
                /\ ingest.start_layer < 3 => AtomicFinished
    /\ ingest.pc = "done" =>
           \A L \in FirstLayer..ingest.n_layers : LayerFinished(L)

\* the top layer is under way after a layer of two chunks built by two
\* workers, the atomic chunks having been created first
C20_Witness ==
    /\ ingest.pc = "layer"
    /\ ingest.start_layer < 3
    /\ ingest.n_threads = <<2, 2>>
    /\ ingest.layer_id = 4
    /\ [layer |-> 4, chunk |-> 0, state |-> "running"] \in ingest.calls
    /\ Cardinality(parent_chunk_coords(ingest.chunk_coords, 3)) = 2

LookupReturned ==
    ev.call = "handle_supervoxel_id_lookup" /\ ev.kind = "return"

\* the positions in the query log of the queries about the points coords
\* under node_id
QueriesOf(queries, coords, node_id) ==
    {q \in 1..Len(queries) :
        queries[q].coords = coords /\ queries[q].node_id = node_id}

\* C21: handle_supervoxel_id_lookup queries get_atomic_ids_from_coords for
\* each coordinate group with max_dist_nm 75, 150, 250, 500 in that order,
\* stops at the first threshold that yields ids, raises BadRequest when all
\* four fail for a group, and never returns an array with an unresolved
\* group.
C21_IncreasingThresholds ==
    LookupReturned =>
        LET queries == ev.result.queries
            cg == ev.args.cg
        IN  /\ \A q \in 1..Len(queries) :
                   LET same == QueriesOf(queries, queries[q].coords,
                                         queries[q].node_id)
                       k == Cardinality({p \in same : p <= q})
                   IN  /\ k <= 4
                       /\ queries[q].max_dist_nm = <<75, 150, 250, 500>>[k]
                       /\ \A p \in same : p < q => ~queries[p].found
                       /\ queries[q].found =
                              get_atomic_ids_from_coords(
                                  cg, queries[q].coords, queries[q].node_id,
                                  queries[q].max_dist_nm).found
                       /\ (~queries[q].found /\ k < 4) =>
                              (q < Len(queries) /\ q + 1 \in same)
                       /\ (~queries[q].found /\ k = 4) =>
                              (q = Len(queries)
                                  /\ ev.result.raised = "BadRequest")
            /\ ev.result.raised = "none" =>
                   /\ Len(ev.result.atomic_ids) = Len(ev.args.coordinates)
                   /\ \A i \in 1..Len(ev.args.coordinates) :
                          /\ ev.result.atomic_ids[i] =
                                 supervoxel_at(ev.args.coordinates[i])
                          /\ \E q \in 1..Len(queries) :
                                 /\ queries[q].found
                                 /\ queries[q].node_id = ev.args.node_ids[i]
                                 /\ \E j \in 1..Len(queries[q].coords) :
                                        queries[q].coords[j] =
                                            ev.args.coordinates[i]
            /\ ev.result.raised = "BadRequest" =>
                   \/ Len(ev.args.coordinates) = 0
                   \/ /\ Len(queries) >= 4
                      /\ ~queries[Len(queries)].found

\* a lookup of two groups: the first is resolved at 250 nm after two
\* failures, the second fails at all four thresholds
C21_Witness ==
    /\ LookupReturned
    /\ ev.result.raised = "BadRequest"
    /\ Len(ev.result.queries) = 7
    /\ ev.result.queries[3].found
    /\ ev.result.queries[3].max_dist_nm = 250

RemapReturned == ev.call = "remap_public" /\ ev.kind = "return"

\* the request is on a virtual table
OnVirtualTable ==
    /\ ~ev.args.virtual_tables.none
    /\ "table_id" \in DOMAIN ev.args.kwargs
    /\ ev.args.kwargs["table_id"] \in DOMAIN ev.args.virtual_tables.tables

\* the value the handler reads from request.args is at most the cap, in
\* half seconds
AtMostCap(value, v_timestamp) ==
    LET f == IF value.tag = "float" THEN value.num ELSE float(value.str)
    IN  ~f.nan /\ 2 * f.v <= v_timestamp

\* C22: on a virtual table an endpoint wrapped with edit=True raises
\* Unauthorized without invoking the handler, and the handler of a non-edit
\* endpoint only sees timestamp and timestamp_future arguments that are at
\* most the cap of the table.
C22_VirtualTableCapped ==
    (RemapReturned /\ OnVirtualTable) =>
        IF ev.args.edit
        THEN ev.result.raised = "Unauthorized" /\ ~ev.result.invoked
        ELSE ev.result.invoked =>
                 \A a \in {"timestamp", "timestamp_future"} :
                     /\ a \in DOMAIN ev.result.http_args
                     /\ AtMostCap(
                            ev.result.http_args[a],
                            ev.args.virtual_tables.tables[
                                ev.args.kwargs["table_id"]].timestamp)

\* the roots a round goes for: per root looked up, the future roots the
\* lookup returned, or the root itself when it returned none
Attempted(looked) ==
    UNION {IF l[2] = {} THEN {l[1]} ELSE l[2] : l \in looked}

\* C23: in each round lock_roots attempts to lock, for every input root,
\* exactly the future root ids get_future_root_ids returned, or the root
\* itself when it returned none; it never attempts to lock a root for which
\* get_future_root_ids returned successors in that round, and the root set
\* it returns is the set attempted in the last round.
C23_LocksFutureRoots ==
    (ev.call = "lock_roots" /\ ev.kind \in {"lock_root", "unlock_root"}) =>
        /\ ev.roots = Attempted(ev.looked)
        /\ ev.kind = "lock_root" =>
               /\ ev.root \in ev.roots
               /\ ~\E l \in ev.looked : l[1] = ev.root /\ l[2] # {}

\* C24: a root locked by a successful lock_roots is current, without a
\* successor, at the moment its lease is written; stated for the lease
\* whose write completes the call.
C24_LockedRootIsCurrent ==
    (ev.call = "lock_roots" /\ ev.kind = "lock_root" /\ ev.end = "success")
        => newRoots[ev.root] = {}

C26_NoRollback ==
    [][ev'.kind = "mutate_rows" =>
          LET op == ev'.op
              i == wr[op].i
              n == wr[op].rows
              block == {k \in 1..n : i < k /\ k <= i + BlockSize}
              before == 1..i
          IN  /\ pc[op] = "mutate"
              /\ i % BlockSize = 0
              /\ block # {}
              /\ wr[op].written = before
              /\ before \subseteq ev'.written
              /\ ev'.written \subseteq before \cup block
              /\ ev'.ret = (ev'.written = before \cup block)
              /\ ~ev'.ret <=> ev'.end = "ChunkedGraphError"
              /\ ev'.end = "ChunkedGraphError" => pc'[op] = "idle"
              /\ (ev'.ret /\ i + BlockSize < n) =>
                     /\ pc'[op] = "mutate"
                     /\ wr'[op].i = i + BlockSize
                     /\ wr'[op].written = before \cup block
              /\ (ev'.ret /\ i + BlockSize >= n) =>
                     /\ pc'[op] = "idle"
                     /\ ev'.end = "written"]_vars

\* the second block failed with one row unwritten: the first block is
\* written, the call has ended with ChunkedGraphError
C26_Witness ==
    /\ ev.kind = "mutate_rows"
    /\ ev.end = "ChunkedGraphError"
    /\ ~ev.ret
    /\ 1..BlockSize \subseteq ev.written
    /\ pc[ev.op] = "idle"

V2Returned == ev.call = "categorize_edges_v2" /\ ev.kind = "return"

\* C27: for the supervoxel set made of the supervoxels of the given layer-2
\* ids, and get_sv_parents mapping each of them to its layer-2 parent and
\* any other supervoxel to itself, categorize_edges_v2 returns the in, out
\* and cross classes that categorize_edges returns for the same set.
C27_SameClasses ==
    V2Returned =>
        ev.result = categorize_edges(ev.args.meta, ev.args.supervoxels,
                                     ev.args.edges)

\* the supervoxels that occur in the edge lists, as either endpoint
Occurring(edge_dict) ==
    UNION {UNION {{edge_dict[k][i][1], edge_dict[k][i][2]} :
                     i \in 1..Len(edge_dict[k])} : k \in DOMAIN edge_dict}

\* the supervoxel is an endpoint of an edge marked active
HasActiveEdge(edge_dict, active, sv) ==
    \E k \in DOMAIN edge_dict : \E i \in 1..Len(edge_dict[k]) :
        active[k][i] /\ sv \in {edge_dict[k][i][1], edge_dict[k][i][2]}

\* C28: define_active_edges records as isolated exactly the supervoxels
\* without an active neighbour: no recorded id has an active edge in the
\* edge lists, and every supervoxel that occurs in them, as either endpoint
\* of an edge of any type, without an active edge is recorded.
C28_IsolatedExactly ==
    ActiveReturned =>
        ev.result.isolated =
            {sv \in Occurring(ev.args.edge_dict) :
                ~HasActiveEdge(ev.args.edge_dict, ev.result.active, sv)}

\* the total affinity of a set of input edges
RECURSIVE TotalAffinity(_)
TotalAffinity(F) ==
    IF F = {} THEN 0
    ELSE LET e == CHOOSE x \in F : TRUE
         IN  e[3] + TotalAffinity(F \ {e})

\* without the edges of F no source is connected to a sink
Disconnects(F) ==
    \A cc \in connected_components(
                  InputNodes, {<<e[1], e[2]>> : e \in ev.args.edges \ F}) :
        ~(cc \cap ev.args.sources # {} /\ cc \cap ev.args.sinks # {})

\* the sets of finite input edges whose removal disconnects every source
\* from every sink
SeparatingSets ==
    {F \in SUBSET {e \in ev.args.edges : ~isinf(e[3])} : Disconnects(F)}

\* sources and sinks are in one component of the input graph
TerminalsConnected ==
    \E cc \in connected_components(InputNodes, InputRows) :
        ev.args.sources \cup ev.args.sinks \subseteq cc

\* the nodes contracted with n: those joined to it by infinite edges
Contracted(n) == Grow({n}, {e \in ev.args.edges : isinf(e[3])})

\* the input edges returned
ReturnedEdges ==
    {e \in ev.args.edges : <<e[1], e[2]>> \in ev.result.cut}

\* C29: the cut mincut returns is a minimum cut. When sources and sinks are
\* connected and some set of finite input edges separates them, the
\* returned edges are such a set of the least total affinity, and with an
\* edge the cut holds every input edge, in its input orientation, between
\* the two contracted components the edge joins.
C29_MinimumCut ==
    (MincutReturned /\ TerminalsConnected /\ SeparatingSets # {}) =>
        /\ ev.result.cut \subseteq InputRows
        /\ ReturnedEdges \in SeparatingSets
        /\ \A F \in SeparatingSets :
               TotalAffinity(ReturnedEdges) <= TotalAffinity(F)
        /\ \A p \in ev.result.cut : \A e \in ev.args.edges :
               (\/ e[1] \in Contracted(p[1]) /\ e[2] \in Contracted(p[2])
                \/ e[1] \in Contracted(p[2]) /\ e[2] \in Contracted(p[1]))
                   => <<e[1], e[2]>> \in ev.result.cut

\* a cut of two edges of total affinity 3 was returned where a single edge
\* of affinity 2 does not separate
C29_Witness ==
    /\ MincutReturned /\ TerminalsConnected
    /\ Cardinality(ReturnedEdges) = 2
    /\ TotalAffinity(ReturnedEdges) = 3
    /\ \E e \in ev.args.edges : e[3] = 2 /\ e \notin ReturnedEdges

StatusReturned == ev.call = "get_edges_status" /\ ev.kind = "return"

\* both endpoints of the row have the same parent at the row's cross-chunk
\* layer + 1
SameParent(cg, row) ==
    LET layer == RowLayer(cg.meta, row)
    IN  get_roots(cg, <<row[1]>>, layer + 1)
            = get_roots(cg, <<row[2]>>, layer + 1)

\* C30: the two arrays get_edges_status returns are aligned with its
\* input: at every index i existence_status[i] tells whether edges[i]
\* exists and active_status[i] whether the endpoints of edges[i] have the
\* same parent at the edge's cross-chunk layer + 1, whatever the order of
\* the edges and of their layers.
C30_StatusAligned ==
    StatusReturned =>
        LET edges == ev.args.edges
        IN  /\ Len(ev.result.existence_status) = Len(edges)
            /\ Len(ev.result.active_status) = Len(edges)
            /\ \A i \in 1..Len(edges) :
                   /\ ev.result.existence_status[i]
                          = (edges[i] \in ev.args.cg.edges)
                   /\ ev.result.active_status[i]
                          = SameParent(ev.args.cg, edges[i])

====
